---------------------------- MODULE Spec2Model ----------------------------
(***************************************************************************)
(* A model of the email-validator service: the verification pipeline       *)
(* (validateEmail, EmailVerifier.verify, SmtpVerifier, the worker-side      *)
(* validateEmailForWorker), the rate limiter (EmailVerifier.checkRateLimit) *)
(* and the bulk endpoint's WorkerPool.                                      *)
(*                                                                          *)
(* JavaScript strings the code inspects character by character (addresses,  *)
(* domains, host names, rate-limit keys, SMTP replies) are sequences of      *)
(* one-character strings.  Fixed tags and messages the code only copies      *)
(* around (status, subStatus, reason, message) are TLA+ strings.             *)
(***************************************************************************)
EXTENDS Integers, Sequences, FiniteSets, TLC

(***************************************************************************)
(* JavaScript values                                                        *)
(***************************************************************************)

\* null / undefined where the other values are character sequences: every
\* JavaScript string is a sequence of ONE-character strings, so these differ
\* from all of them.
StrNull == <<"<null>">>
StrUndefined == <<"<undefined>">>

\* null / undefined where the other values are tags or messages.
JsNull == "<null>"
JsUndefined == "<undefined>"

\* JavaScript truthiness of a character-sequence value (!x is its negation).
TruthyStr(x) == x /= StrNull /\ x /= StrUndefined /\ x /= <<>>

\* JavaScript truthiness of a tag or message.
Truthy(x) == x /= JsNull /\ x /= JsUndefined /\ x /= ""

\* a || b on tags and messages.
OrElse(a, b) == IF Truthy(a) THEN a ELSE b

\* String.prototype.startsWith
StartsWith(s, p) == Len(p) <= Len(s) /\ SubSeq(s, 1, Len(p)) = p

\* String.prototype.endsWith
EndsWith(s, p) == Len(p) <= Len(s) /\ SubSeq(s, Len(s) - Len(p) + 1, Len(s)) = p

\* String.prototype.includes
Includes(s, p) == \E i \in 1..(Len(s) - Len(p) + 1) : SubSeq(s, i, i + Len(p) - 1) = p

\* String.prototype.toLowerCase, one character.
LowerChar(c) ==
    CASE c = "A" -> "a" [] c = "B" -> "b" [] c = "C" -> "c" [] c = "D" -> "d"
      [] c = "E" -> "e" [] c = "F" -> "f" [] c = "G" -> "g" [] c = "H" -> "h"
      [] c = "I" -> "i" [] c = "J" -> "j" [] c = "K" -> "k" [] c = "L" -> "l"
      [] c = "M" -> "m" [] c = "N" -> "n" [] c = "O" -> "o" [] c = "P" -> "p"
      [] c = "Q" -> "q" [] c = "R" -> "r" [] c = "S" -> "s" [] c = "T" -> "t"
      [] c = "U" -> "u" [] c = "V" -> "v" [] c = "W" -> "w" [] c = "X" -> "x"
      [] c = "Y" -> "y" [] c = "Z" -> "z" [] OTHER -> c

\* String.prototype.toLowerCase
toLowerCase(s) == [i \in 1..Len(s) |-> LowerChar(s[i])]

\* The position of the first occurrence of character c in s at or after
\* position i, or 0.
RECURSIVE IndexFrom(_, _, _)
IndexFrom(s, c, i) ==
    IF i > Len(s) THEN 0
    ELSE IF s[i] = c THEN i
    ELSE IndexFrom(s, c, i + 1)

\* String.prototype.split on a one-character separator: the pieces between
\* the separators, in order (always at least one piece).
RECURSIVE Split(_, _)
Split(s, c) ==
    LET i == IndexFrom(s, c, 1)
    IN  IF i = 0 THEN <<s>>
        ELSE <<SubSeq(s, 1, i - 1)>> \o Split(SubSeq(s, i + 1, Len(s)), c)

\* const [a, b] = parts : the k-th element, undefined when there is none.
Destructure(parts, k) == IF k <= Len(parts) THEN parts[k] ELSE StrUndefined

\* Number -> decimal string, as a template literal prints it.
RECURSIVE ToDecimal(_)
ToDecimal(n) ==
    LET d == <<"0", "1", "2", "3", "4", "5", "6", "7", "8", "9">>
    IN  IF n < 10 THEN <<d[n + 1]>>
        ELSE ToDecimal(n \div 10) \o <<d[(n % 10) + 1]>>

(***************************************************************************)
(* Static tables                                                            *)
(***************************************************************************)

CORPORATE_DOMAINS == {
    <<"a","m","a","z","o","n",".","c","o","m">>,
    <<"m","i","c","r","o","s","o","f","t",".","c","o","m">>,
    <<"g","o","o","g","l","e",".","c","o","m">>,
    <<"a","p","p","l","e",".","c","o","m">>,
    <<"f","a","c","e","b","o","o","k",".","c","o","m">>,
    <<"m","e","t","a",".","c","o","m">>,
    <<"n","e","t","f","l","i","x",".","c","o","m">>,
    <<"o","r","a","c","l","e",".","c","o","m">>,
    <<"s","a","l","e","s","f","o","r","c","e",".","c","o","m">>,
    <<"i","b","m",".","c","o","m">>,
    <<"i","n","t","e","l",".","c","o","m">>,
    <<"c","i","s","c","o",".","c","o","m">>,
    <<"a","d","o","b","e",".","c","o","m">>,
    <<"v","m","w","a","r","e",".","c","o","m">>,
    <<"s","a","p",".","c","o","m">> }

disposableDomains == {
    <<"t","e","m","p","m","a","i","l",".","c","o","m">>,
    <<"t","h","r","o","w","a","w","a","y","m","a","i","l",".","c","o","m">>,
    <<"m","a","i","l","i","n","a","t","o","r",".","c","o","m">>,
    <<"g","u","e","r","r","i","l","l","a","m","a","i","l",".","c","o","m">>,
    <<"t","e","m","p","-","m","a","i","l",".","o","r","g">>,
    <<"f","a","k","e","i","n","b","o","x",".","c","o","m">> }

\* isDisposableEmail(domain)
isDisposableEmail(domain) == toLowerCase(domain) \in disposableDomains

\* EmailVerifier.isCorporateDomain(domain)
isCorporateDomain(domain) ==
    \/ toLowerCase(domain) \in CORPORATE_DOMAINS
    \/ EndsWith(domain, <<".","e","d","u">>)
    \/ EndsWith(domain, <<".","g","o","v">>)

\* A white-space class that knows the blank only.
IsSpace_blankOnly(c) == c = " "

\* \s of a JavaScript regular expression, on the characters the model uses.
IsSpace(c) == c \in {" ", "\t", "\n", "\r"}

\* [^\s@]+ : a non-empty run of characters that are neither white space nor @.
NoSpaceNoAt(s) == Len(s) >= 1 /\ \A i \in 1..Len(s) : ~IsSpace(s[i]) /\ s[i] /= "@"

\* /^[^\s@]+@[^\s@]+\.[^\s@]+$/.test(s)
emailRegexTest(s) ==
    \E i \in 1..Len(s) : \E j \in (i + 1)..Len(s) :
        /\ s[i] = "@"
        /\ s[j] = "."
        /\ NoSpaceNoAt(SubSeq(s, 1, i - 1))
        /\ NoSpaceNoAt(SubSeq(s, i + 1, j - 1))
        /\ NoSpaceNoAt(SubSeq(s, j + 1, Len(s)))

(***************************************************************************)
(* State                                                                    *)
(***************************************************************************)

VARIABLES
    now,            \* Date.now(), in milliseconds
    rateLimiter,    \* the module-level Map of email-verifier.ts, main thread
    rlLast,         \* the value the last checkRateLimit call returned, or "none"
    rlAdmits,       \* history: calls that returned true at a time in (now - W, now]
    rlChecks,       \* history: checkRateLimit calls made so far
    rlElapsed,      \* history: calls made since a whole window last elapsed, or -1
    config,         \* rateLimitConfig.config, the stored configuration
    cfgLast,        \* the last POST /api/rate-limit-config: body, store before, answer
    rlSince,        \* history: calls that returned true since the last stored update
    hour,           \* whole hours gone by, for calls of recordValidation hours apart
    httpLimiter,    \* the module-level Map of the routes module (part_006)
    httpLast,       \* the last HTTP request: its client, its status, verify's check
    batch,          \* the validationJobs row and validationResults rows of a batch
                    \* job, where processBatchEmails stands, the last job query
    job,            \* the verification in progress: where it stands, what it holds
    last,           \* the last result record returned, and the run that built it
    nReq,           \* verifications begun so far
    conn,           \* the closure of the latest verifySmtp call: its socket, its
                    \* deadline timer, its stage, what it read and wrote
    metrics,        \* the metricsTracker of the main thread
    pool,           \* the WorkerPool: workers, queue, activeWorkers, and the
                    \* threads of the Workers it has created
    promises,       \* the promises execute returned, one per element of emails
    bulk,           \* the POST /api/validate-emails request and its response
    nTerm           \* terminate() calls made so far

rateVars == <<rlLast, rlAdmits, rlChecks, rlElapsed, config, cfgLast, rlSince, hour,
              httpLimiter, httpLast, batch>>
pipeVars == <<job, last, nReq, conn, metrics>>
poolVars == <<pool, promises, bulk, nTerm>>
vars == <<now, rateLimiter, rateVars, pipeVars, poolVars>>

(***************************************************************************)
(* Rate limiter: EmailVerifier.checkRateLimit                               *)
(***************************************************************************)

RATE_LIMIT_WINDOW == 3600000
MAX_ATTEMPTS == 100

\* The caller's address, req.ip.
ClientIp == <<"1","2","7",".","0",".","0",".","1">>

\* new Map()
EmptyMap == [k \in {} |-> 0]

\* `${ip}_${now}`
RateKey(ip, t) == ip \o <<"_">> \o ToDecimal(t)

\* Map.prototype.set: an existing key keeps one entry, with the new value.
MapSet(m, k, v) == [x \in DOMAIN m \cup {k} |-> IF x = k THEN v ELSE m[x]]

\* The loop deleting the entries older than the window.
PurgeOld(m, windowStart) == [k \in {x \in DOMAIN m : ~(m[x] < windowStart)} |-> m[k]]

\* The entries counted for ip: key.startsWith(ip) && timestamp > windowStart.
Attempts(m, ip, windowStart) ==
    Cardinality({k \in DOMAIN m : StartsWith(k, ip) /\ m[k] > windowStart})

\* A limiter that admits one attempt per window.
checkRateLimit_oncePerWindow(m, ip, t) ==
    LET windowStart == t - RATE_LIMIT_WINDOW
        purged == PurgeOld(m, windowStart)
    IN  IF Attempts(purged, ip, windowStart) >= 1
        THEN [allowed |-> FALSE, map |-> purged]
        ELSE [allowed |-> TRUE, map |-> MapSet(purged, RateKey(ip, t), t)]

\* EmailVerifier.checkRateLimit(ip) called at time t on map m: the value
\* returned and the map it leaves.
checkRateLimit(m, ip, t) ==
    LET windowStart == t - RATE_LIMIT_WINDOW
        purged == PurgeOld(m, windowStart)
    IN  IF Attempts(purged, ip, windowStart) >= MAX_ATTEMPTS
        THEN [allowed |-> FALSE, map |-> purged]
        ELSE [allowed |-> TRUE, map |-> MapSet(purged, RateKey(ip, t), t)]

\* The middleware's MAX_REQUESTS; its RATE_LIMIT_WINDOW is that of
\* email-verifier.ts.
MAX_REQUESTS == 100

\* The rate limiting middleware of registerRoutes, for a request of ip at time
\* t on the routes module's map m: whether it calls next(), and the map it
\* leaves.  It deletes no entry.
rateLimitMiddleware(m, ip, t) ==
    IF Attempts(m, ip, t - RATE_LIMIT_WINDOW) >= MAX_REQUESTS
    THEN [allowed |-> FALSE, map |-> m]
    ELSE [allowed |-> TRUE, map |-> MapSet(m, RateKey(ip, t), t)]

(***************************************************************************)
(* RateLimitConfigStore and POST /api/rate-limit-config                     *)
(***************************************************************************)

\* The values a field of a JSON body takes: a number, or a string that is
\* not numeric.  A field the body leaves out is undefined.
Num(n) == [t |-> "number", n |-> n, s |-> ""]
Str(s) == [t |-> "string", n |-> 0, s |-> s]
Undefined == [t |-> "undefined", n |-> 0, s |-> ""]

\* ToNumber of the relational operators: a string that is not numeric gives
\* NaN, and so does undefined.
ToNumber(v) == IF v.t = "number" THEN [nan |-> FALSE, n |-> v.n] ELSE [nan |-> TRUE, n |-> 0]

\* v < k and v > k for a number k: false when ToNumber(v) is NaN.
Less(v, k) == ~ToNumber(v).nan /\ ToNumber(v).n < k
Greater(v, k) == ~ToNumber(v).nan /\ ToNumber(v).n > k

\* The configuration the constructor stores.
DefaultConfig ==
    [requestsPerHour |-> Num(100), maxBulkEmails |-> Num(100),
     windowMs |-> Num(3600000), blockDuration |-> Num(3600000)]

ConfigFields == {"requestsPerHour", "maxBulkEmails", "windowMs", "blockDuration"}

\* validateConfig(config): the message of the first range check that fails,
\* or null.
validateConfig(c) ==
    IF c.requestsPerHour /= Undefined
       /\ (Less(c.requestsPerHour, 1) \/ Greater(c.requestsPerHour, 1000))
    THEN "Requests per hour must be between 1 and 1000"
    ELSE IF c.maxBulkEmails /= Undefined
            /\ (Less(c.maxBulkEmails, 1) \/ Greater(c.maxBulkEmails, 500))
    THEN "Max bulk emails must be between 1 and 500"
    ELSE IF c.windowMs /= Undefined
            /\ (Less(c.windowMs, 60000) \/ Greater(c.windowMs, 86400000))
    THEN "Window duration must be between 1 minute and 24 hours"
    ELSE IF c.blockDuration /= Undefined
            /\ (Less(c.blockDuration, 300000) \/ Greater(c.blockDuration, 86400000))
    THEN "Block duration must be between 5 minutes and 24 hours"
    ELSE JsNull

\* updateConfig(newConfig): { ...this.config, ...newConfig }.  A spread copies
\* the fields the body has.
updateConfig(old, newConfig) ==
    [f \in ConfigFields |-> IF newConfig[f] /= Undefined THEN newConfig[f] ELSE old[f]]

\* No POST /api/rate-limit-config was made.
NoPost == [status |-> 0]

(***************************************************************************)
(* SMTP verifier: SmtpVerifier.verifySmtp and SmtpVerifier.verify           *)
(***************************************************************************)

\* The promise of verifySmtp: not settled, resolved with a result, rejected
\* with { code, message }.
Pending == [kind |-> "pending"]
Resolved(valid, error, reason, isCatchAll) ==
    [kind |-> "resolve", valid |-> valid, error |-> error, reason |-> reason,
     isCatchAll |-> isCatchAll]
Rejected(code, message) == [kind |-> "reject", code |-> code, message |-> message]

\* case 0 of the 'data' handler: the greeting.
onGreeting(response) ==
    IF StartsWith(response, <<"2","2","0">>)
    THEN [stage |-> 1, promise |-> Pending, write |-> "HELO"]
    ELSE [stage |-> 0, write |-> "none",
          promise |-> Rejected("greeting_error", "Server did not send proper greeting")]

\* A HELO stage that goes on whatever the reply is.
onHelo_anyReply(response) == [stage |-> 2, promise |-> Pending, write |-> "MAIL FROM"]

\* case 1: the reply to HELO.
onHelo(response) ==
    IF StartsWith(response, <<"2","5","0">>)
    THEN [stage |-> 2, promise |-> Pending, write |-> "MAIL FROM"]
    ELSE [stage |-> 1, write |-> "none",
          promise |-> Rejected("helo_error", "HELO command failed")]

\* case 2: the reply to MAIL FROM.
onMailFrom(response) ==
    IF StartsWith(response, <<"2","5","0">>)
    THEN [stage |-> 3, promise |-> Pending, write |-> "RCPT TO"]
    ELSE [stage |-> 2, write |-> "none",
          promise |-> Rejected("mail_from_error", "MAIL FROM command failed")]

\* case 3: the reply to RCPT TO for the recipient.
onRcptTo(response) ==
    IF StartsWith(response, <<"2","5","0">>)
    THEN [stage |-> 4, promise |-> Pending, write |-> "RCPT TO random"]
    ELSE IF \/ StartsWith(response, <<"5","5","0">>)
            \/ Includes(response, <<"d","o","e","s"," ","n","o","t"," ","e","x","i","s","t">>)
    THEN [stage |-> 3, write |-> "none",
          promise |-> Resolved(FALSE, "mailbox_not_found", "Mailbox does not exist", FALSE)]
    ELSE [stage |-> 3, write |-> "none",
          promise |-> Rejected("rcpt_to_error", "RCPT TO command failed")]

\* case 4: the reply to RCPT TO for the probe mailbox.
onCatchAllCheck(response) ==
    IF StartsWith(response, <<"2","5","0">>)
    THEN [stage |-> 4, write |-> "none",
          promise |-> Resolved(FALSE, "catch_all_detected", "Catch-all domain detected", TRUE)]
    ELSE [stage |-> 4, write |-> "none",
          promise |-> Resolved(TRUE, JsUndefined, "Mailbox exists and is not a catch-all", FALSE)]

\* The socket 'data' handler: the stage and the promise it leaves, and the
\* command it writes, when the chunk `response` arrives at stage `stage`.
onData(stage, response) ==
    CASE stage = 0 -> onGreeting(response)
      [] stage = 1 -> onHelo(response)
      [] stage = 2 -> onMailFrom(response)
      [] stage = 3 -> onRcptTo(response)
      [] stage = 4 -> onCatchAllCheck(response)
      [] OTHER -> [stage |-> stage, promise |-> Pending, write |-> "none"]

\* The socket 'error' handler.
onError(message) == Rejected("connection_error", message)

\* A deadline callback that settles nothing.
onTimeout_pending == Pending

\* The deadline timer's callback.
onTimeout == Rejected("timeout_error", "Connection timeout")

\* SmtpVerifier.HELO_DOMAIN.
HELO_DOMAIN == <<"v","e","r","i","f","y",".","l","o","c","a","l">>

\* `test${Date.now()}@${email.split('@')[1]}`: the mailbox of the catch-all
\* probe, made at time t.
randomEmail(email, t) ==
    <<"t","e","s","t">> \o ToDecimal(t) \o <<"@">> \o Split(email, "@")[2]

\* The lines socket.write sends, without their CRLF.
heloLine == <<"H","E","L","O"," ">> \o HELO_DOMAIN
mailFromLine ==
    <<"M","A","I","L"," ","F","R","O","M",":","<","v","e","r","i","f","y","@">>
        \o HELO_DOMAIN \o <<">">>
rcptToLine(mailbox) == <<"R","C","P","T"," ","T","O",":","<">> \o mailbox \o <<">">>
quitLine == <<"Q","U","I","T">>

\* The line the 'data' handler writes for the tag `write` of its stage.
commandOf(write, email, t) ==
    CASE write = "HELO" -> heloLine
      [] write = "MAIL FROM" -> mailFromLine
      [] write = "RCPT TO" -> rcptToLine(email)
      [] write = "RCPT TO random" -> rcptToLine(randomEmail(email, t))

\* No verifySmtp call made yet.
NoConn ==
    [socket |-> "none", timer |-> "none", email |-> <<>>, stage |-> 0,
     replies |-> <<>>, writes |-> <<>>, cleanups |-> 0, settles |-> 0,
     outcome |-> Pending]

\* verifySmtp(email, mxRecord) up to its return: the socket is made and asked
\* to connect, the deadline timer is armed.
verifySmtp(email) ==
    [NoConn EXCEPT !.socket = "open", !.timer = "armed", !.email = email]

\* A cleanup that leaves the timer armed.
cleanup_keepsTimer(c) ==
    [c EXCEPT !.writes = Append(@, quitLine),
              !.socket = "destroyed",
              !.cleanups = @ + 1]

\* A cleanup that leaves the socket open.
cleanup_keepsSocket(c) ==
    [c EXCEPT !.writes = Append(@, quitLine),
              !.timer = IF @ = "armed" THEN "cleared" ELSE @,
              !.cleanups = @ + 1]

\* cleanup(): QUIT is written, the socket destroyed, the timer cleared.  A
\* socket the peer has closed is destroyed already, and stays as it is.
cleanup(c) ==
    [c EXCEPT !.writes = Append(@, quitLine),
              !.socket = IF @ = "closed" THEN @ ELSE "destroyed",
              !.timer = IF @ = "armed" THEN "cleared" ELSE @,
              !.cleanups = @ + 1]

\* resolve(...) or reject(...) is called: the first call settles the promise.
deliver(c, promise) ==
    [c EXCEPT !.settles = @ + 1,
              !.outcome = IF @ = Pending THEN promise ELSE @]

\* socket.on('data') as a whole, at time t.
handleData(c, response, t) ==
    LET h == onData(c.stage, response)
        read == [c EXCEPT !.replies = Append(@, response),
                          !.stage = h.stage,
                          !.writes = IF h.write = "none" THEN @
                                     ELSE Append(@, commandOf(h.write, c.email, t))]
    IN  IF h.promise = Pending THEN read ELSE deliver(cleanup(read), h.promise)

\* socket.on('error') as a whole.
handleError(c, message) == deliver(cleanup(c), onError(message))

\* The deadline timer's callback as a whole.
handleTimeout(c) == deliver(cleanup([c EXCEPT !.timer = "fired"]), onTimeout)

\* records.sort((a, b) => a.priority - b.priority): a stable insertion sort.
RECURSIVE InsertByPriority(_, _)
InsertByPriority(sorted, r) ==
    IF sorted = <<>> THEN <<r>>
    ELSE IF r.priority < Head(sorted).priority THEN <<r>> \o sorted
    ELSE <<Head(sorted)>> \o InsertByPriority(Tail(sorted), r)

RECURSIVE SortByPriority(_)
SortByPriority(records) ==
    IF records = <<>> THEN <<>>
    ELSE InsertByPriority(SortByPriority(SubSeq(records, 1, Len(records) - 1)),
                          records[Len(records)])

\* lookupMxRecords: what it returns or throws for the answer of resolveMx; an
\* answer is [throws |-> message] or [records |-> a list].
lookupMxRecords(answer) ==
    IF "throws" \in DOMAIN answer
    THEN [threw |-> TRUE, code |-> "dns_error", message |-> answer.throws]
    ELSE IF Len(answer.records) = 0
    THEN [threw |-> TRUE, code |-> "dns_error", message |-> "No MX records found"]
    ELSE [threw |-> FALSE, mxRecords |-> SortByPriority(answer.records)]

\* this.logs once lookupMxRecords is left: the entries logStage pushed in it,
\* which open the list (those verifySmtp pushes afterwards are left out).
lookupLogs(answer) ==
    LET entry(success) == [stage |-> "dns_lookup", success |-> success]
    IN  IF "throws" \in DOMAIN answer THEN <<entry(TRUE), entry(FALSE)>>
        ELSE IF Len(answer.records) = 0 THEN <<entry(TRUE), entry(FALSE), entry(FALSE)>>
        ELSE <<entry(TRUE), entry(TRUE)>>

\* The catch block of SmtpVerifier.verify: the result for a thrown or
\* rejected { code, message }.
smtpCatch(code, message) ==
    [valid |-> FALSE, error |-> code, reason |-> message, mxRecord |-> StrUndefined,
     isCatchAll |-> FALSE]

\* SmtpVerifier.verify once verifySmtp has settled with `promise` against the
\* primary exchange.
smtpVerify(promise, primaryMx) ==
    IF promise.kind = "resolve"
    THEN [valid |-> promise.valid, error |-> promise.error, reason |-> promise.reason,
          mxRecord |-> primaryMx, isCatchAll |-> promise.isCatchAll]
    ELSE smtpCatch(promise.code, promise.message)

(***************************************************************************)
(* EmailVerifier.verify                                                     *)
(***************************************************************************)

\* A VerificationResult.  isCorporate and isCatchAll are read only through
\* &&, so a field the code leaves out (undefined) is FALSE here.
VerificationResult(valid, reason, mxRecord, dmarcPolicy, isCorporate, isCatchAll) ==
    [valid |-> valid, reason |-> reason, mxRecord |-> mxRecord,
     dmarcPolicy |-> dmarcPolicy, isCorporate |-> isCorporate, isCatchAll |-> isCatchAll]

\* A return for a refused caller that gives no reason.
verifyRateLimited_noReason ==
    VerificationResult(FALSE, JsUndefined, StrUndefined, JsUndefined, FALSE, FALSE)

\* The return for a caller the rate limiter refuses.
verifyRateLimited ==
    VerificationResult(FALSE, "Rate limit exceeded", StrUndefined, JsUndefined, FALSE, FALSE)

\* The return for an address the regular expression refuses.
verifyBadFormat ==
    VerificationResult(FALSE, "Invalid email format", StrUndefined, JsUndefined, FALSE, FALSE)

\* dmarcRecord?.policy ?? null; getDmarcRecord returns [found |-> FALSE] for
\* null and [found |-> TRUE, policy |-> p] for a record.
dmarcPolicyOf(dmarcRecord) == IF dmarcRecord.found THEN dmarcRecord.policy ELSE JsNull

\* A synthesis that passes the SMTP verdict on for a corporate catch-all.
verifySynthesis_smtpVerdict(smtpResult, dmarcRecord, domain) ==
    VerificationResult(smtpResult.valid, smtpResult.reason, smtpResult.mxRecord,
        dmarcPolicyOf(dmarcRecord), isCorporateDomain(domain), smtpResult.isCatchAll)

\* The synthesis after `await verifier.verify(email)`.
\* A variant of verify in which a domain without a DMARC record is refused.
verifySynthesis_dmarcRequired(smtpResult, dmarcRecord, domain) ==
    IF dmarcRecord.found
    THEN verifySynthesis_smtpVerdict(smtpResult, dmarcRecord, domain)
    ELSE [logs |-> smtpResult.logs] @@
         VerificationResult(FALSE, "No DMARC record", smtpResult.mxRecord,
                            JsNull, isCorporateDomain(domain), FALSE)

verifySynthesis(smtpResult, dmarcRecord, domain) ==
    LET isCorporate == isCorporateDomain(domain)
        logs == [logs |-> smtpResult.logs]
    IN  IF smtpResult.isCatchAll /\ isCorporate
        THEN logs @@ VerificationResult(TRUE,
                 "Valid corporate email domain with catch-all configuration",
                 smtpResult.mxRecord, dmarcPolicyOf(dmarcRecord), TRUE, TRUE)
        ELSE IF ~smtpResult.valid
        THEN logs @@ VerificationResult(FALSE, smtpResult.reason, smtpResult.mxRecord,
                 dmarcPolicyOf(dmarcRecord), isCorporate, FALSE)
        ELSE logs @@ VerificationResult(TRUE,
                 IF isCorporate THEN "Valid corporate email address"
                                ELSE "Valid email address",
                 smtpResult.mxRecord, dmarcPolicyOf(dmarcRecord), isCorporate, FALSE)

(***************************************************************************)
(* Result records: validateEmail, validateEmailForWorker, the bulk fallback *)
(* (firstName, lastName, didYouMean and domainAgeDays are left out: no      *)
(* property below reads them)                                               *)
(***************************************************************************)

\* mxRecord.split('.')[0]
smtpProviderOf(mxRecord) ==
    IF TruthyStr(mxRecord) THEN Split(mxRecord, ".")[1] ELSE <<"U","n","k","n","o","w","n">>

\* An mxFound that only asks whether mxRecord is null.
mxFoundOf_notNull(mxRecord) == IF mxRecord /= StrNull THEN "Yes" ELSE "No"

\* verificationResult.mxRecord ? "Yes" : "No"
mxFoundOf(mxRecord) == IF TruthyStr(mxRecord) THEN "Yes" ELSE "No"

\* verificationResult.mxRecord || null
mxRecordOf(mxRecord) == IF TruthyStr(mxRecord) THEN mxRecord ELSE StrNull

\* validateEmail: the record for an address without account or domain.
formatErrorRecord(account, domain) ==
    [status |-> "invalid", subStatus |-> "format_error", freeEmail |-> "Unknown",
     account |-> IF TruthyStr(account) THEN account ELSE <<>>,
     domain |-> IF TruthyStr(domain) THEN domain ELSE <<>>,
     smtpProvider |-> <<"U","n","k","n","o","w","n">>,
     mxFound |-> "No", mxRecord |-> StrNull, dmarcPolicy |-> JsNull,
     message |-> "Invalid email format", isValid |-> FALSE]

\* validateEmail: the record for a disposable domain.
disposableRecord(account, domain) ==
    [status |-> "invalid", subStatus |-> "disposable", freeEmail |-> "No",
     account |-> account, domain |-> domain,
     smtpProvider |-> <<"U","n","k","n","o","w","n">>,
     mxFound |-> "No", mxRecord |-> StrNull, dmarcPolicy |-> JsNull,
     message |-> "Disposable email addresses are not allowed", isValid |-> FALSE]

\* validateEmail: the status of a verification result.
statusOf(vr) ==
    IF vr.isCatchAll /\ vr.isCorporate THEN "catch-all"
    ELSE IF vr.valid THEN "valid" ELSE "invalid"

\* validateEmail: the record built from the verification result.
resultRecord(vr, account, domain) ==
    [status |-> statusOf(vr),
     subStatus |-> OrElse(vr.reason, JsNull),
     freeEmail |-> "No", account |-> account, domain |-> domain,
     smtpProvider |-> smtpProviderOf(vr.mxRecord),
     mxFound |-> mxFoundOf(vr.mxRecord),
     mxRecord |-> mxRecordOf(vr.mxRecord),
     dmarcPolicy |-> OrElse(vr.dmarcPolicy, JsNull),
     message |-> OrElse(vr.reason,
                        IF vr.valid THEN "Valid email address" ELSE "Invalid email address"),
     isValid |-> vr.valid]

\* validateEmail: the record of its catch block.
errorRecord(message) ==
    [status |-> "error", subStatus |-> "system_error", freeEmail |-> "Unknown",
     account |-> <<"U","n","k","n","o","w","n">>,
     domain |-> <<"U","n","k","n","o","w","n">>,
     smtpProvider |-> <<"U","n","k","n","o","w","n">>,
     mxFound |-> "No", mxRecord |-> StrNull, dmarcPolicy |-> JsNull,
     message |-> message, isValid |-> FALSE]

\* validateEmailForWorker: the record built from the verification result.
workerRecord(vr, account, domain) ==
    [status |-> IF vr.valid THEN "valid" ELSE "invalid",
     subStatus |-> OrElse(vr.reason, JsNull),
     freeEmail |-> "No", account |-> account, domain |-> domain,
     smtpProvider |-> smtpProviderOf(vr.mxRecord),
     mxFound |-> mxFoundOf(vr.mxRecord),
     mxRecord |-> mxRecordOf(vr.mxRecord),
     dmarcPolicy |-> OrElse(vr.dmarcPolicy, JsNull),
     message |-> OrElse(vr.reason,
                        IF vr.valid THEN "Valid email address" ELSE "Invalid email address"),
     isValid |-> vr.valid]

\* validateEmailForWorker: the record of its catch block.
workerCatchRecord(message) ==
    [status |-> "invalid", subStatus |-> "system_error", freeEmail |-> "Unknown",
     account |-> <<"U","n","k","n","o","w","n">>,
     domain |-> <<"U","n","k","n","o","w","n">>,
     smtpProvider |-> <<"U","n","k","n","o","w","n">>,
     mxFound |-> "No", mxRecord |-> StrNull, dmarcPolicy |-> JsNull,
     message |-> message, isValid |-> FALSE]

\* A fallback record that copies the shape of a worker's record.
fallbackRecord_noSubStatus(message) ==
    [status |-> "error", subStatus |-> JsNull, freeEmail |-> "Unknown",
     account |-> <<"U","n","k","n","o","w","n">>,
     domain |-> <<"U","n","k","n","o","w","n">>,
     smtpProvider |-> <<"U","n","k","n","o","w","n">>,
     mxFound |-> "No", mxRecord |-> StrNull, dmarcPolicy |-> JsNull,
     message |-> message, isValid |-> FALSE]

\* POST /api/validate-emails: the record the .catch of a task's promise
\* builds (the response adds the email to every record).
fallbackRecord(message) ==
    [status |-> "error", subStatus |-> "system_error", freeEmail |-> "Unknown",
     account |-> <<"U","n","k","n","o","w","n">>,
     domain |-> <<"U","n","k","n","o","w","n">>,
     smtpProvider |-> <<"U","n","k","n","o","w","n">>,
     mxFound |-> "No", mxRecord |-> StrNull, dmarcPolicy |-> JsNull,
     message |-> message, isValid |-> FALSE]

(***************************************************************************)
(* Batch validation jobs (routes.ts): POST /api/validate-emails/batch,     *)
(* processBatchEmails, GET /api/validate-emails/batch/:jobId               *)
(***************************************************************************)

\* const batchSize = 100, and the `emails.length > 100` of the POST handler.
batchSize == 100

\* processBatchEmails that counts a whole batch for every slice.
sliceLength_wholeBatch(n, i) == batchSize

\* emails.slice(i, i + batchSize).length for an array of n elements.
sliceLength(n, i) == IF n - i < batchSize THEN n - i ELSE batchSize

\* The lengths of the arrays posted: inline ones, and ones that become a job
\* of two batches, of two full batches, of three batches.
BatchSizes == {2, batchSize, batchSize + 1, 2 * batchSize, 2 * batchSize + 50}

\* The id the first insert into validationJobs returns, and an id no row has.
JobId == 1
OtherJobId == 2

\* No job row yet, no result row, processBatchEmails not called, no request
\* answered.
NoBatch ==
    [row |-> [id |-> 0, status |-> "none", totalEmails |-> 0, processedEmails |-> 0,
              error |-> JsNull],
     results |-> 0,
     pc |-> "idle", n |-> 0, i |-> 0, processedCount |-> 0,
     post |-> [status |-> 0],
     query |-> [status |-> 0]]

\* The handler of POST /api/validate-emails/batch for a body whose emails is
\* an array of n elements (isArray) or no array; `throws`: the call it awaits
\* (the insert of the job row, or validateEmailsPython) rejects.  With a job
\* created, processBatchEmails is called and runs up to its first await.
postBatch(isArray, n, throws) ==
    /\ batch.post.status = 0
    /\ batch' =
         IF ~isArray
         THEN [batch EXCEPT !.post = [status |-> 400,
                                      message |-> "Emails must be provided as an array"]]
         ELSE IF throws
         THEN [batch EXCEPT !.post = [status |-> 500,
                                      message |-> "Internal server error during batch validation"]]
         ELSE IF n > batchSize
         THEN [batch EXCEPT !.row = [id |-> JobId, status |-> "pending", totalEmails |-> n,
                                     processedEmails |-> 0, error |-> JsNull],
                            !.pc = "processing", !.n = n, !.i = 0, !.processedCount = 0,
                            !.post = [status |-> 200,
                                      message |-> "Batch validation job created",
                                      jobId |-> JobId]]
         ELSE [batch EXCEPT !.post = [status |-> 200, rows |-> n]]
    /\ UNCHANGED <<now, rateLimiter, rlLast, rlAdmits, rlChecks, rlElapsed, config, cfgLast,
                   rlSince, hour, httpLimiter, httpLast, pipeVars, poolVars>>

\* processBatchEmails from one await to the next; `throws`: the call awaited
\* (a db update or insert, validateEmailsPython) rejects, and the catch block
\* is entered, or, inside the catch block, left.  The error recorded is the
\* message of what was thrown, here that of validateEmailsPython.
processBatchEmails(throws) ==
    /\ batch.pc \notin {"idle", "done"}
    /\ batch' =
         IF batch.pc = "catch"
         THEN IF throws THEN [batch EXCEPT !.pc = "done"]
              ELSE [batch EXCEPT !.pc = "done", !.row.status = "failed",
                                 !.row.error = "Python script execution failed"]
         ELSE IF throws THEN [batch EXCEPT !.pc = "catch"]
         ELSE IF batch.pc = "processing"
         THEN [batch EXCEPT !.row.status = "processing",
                            !.pc = IF batch.i < batch.n THEN "validate" ELSE "complete"]
         ELSE IF batch.pc = "validate"
         THEN [batch EXCEPT !.pc = "insert"]
         ELSE IF batch.pc = "insert"
         THEN [batch EXCEPT !.results = @ + sliceLength(batch.n, batch.i),
                            !.processedCount = @ + sliceLength(batch.n, batch.i),
                            !.pc = "progress"]
         ELSE IF batch.pc = "progress"
         THEN [batch EXCEPT !.row.processedEmails = batch.processedCount,
                            !.i = @ + batchSize,
                            !.pc = IF batch.i + batchSize < batch.n THEN "validate"
                                   ELSE "complete"]
         ELSE [batch EXCEPT !.row.status = "completed", !.pc = "done"]
    /\ UNCHANGED <<now, rateLimiter, rlLast, rlAdmits, rlChecks, rlElapsed, config, cfgLast,
                   rlSince, hour, httpLimiter, httpLast, pipeVars, poolVars>>

\* The handler of GET /api/validate-emails/batch/:jobId for a jobId that
\* parses to the integer jobId; `throws`: a select rejects.  The results are
\* read only after the row was read with status "completed", which no later
\* update changes, so the two selects see the same job.
getBatchJob(jobId, throws) ==
    /\ batch' = [batch EXCEPT !.query =
                    IF throws
                    THEN [status |-> 500,
                          message |-> "Internal server error while fetching job status"]
                    ELSE IF batch.row.id /= jobId
                    THEN [status |-> 404, message |-> "Job not found"]
                    ELSE [status |-> 200, job |-> batch.row,
                          results |-> IF batch.row.status = "completed"
                                      THEN [defined |-> TRUE, rows |-> batch.results]
                                      ELSE [defined |-> FALSE]]]
    /\ UNCHANGED <<now, rateLimiter, rlLast, rlAdmits, rlChecks, rlElapsed, config, cfgLast,
                   rlSince, hour, httpLimiter, httpLast, pipeVars, poolVars>>

NextBatch ==
    \/ \E isArray \in BOOLEAN : \E n \in BatchSizes : \E throws \in BOOLEAN :
          postBatch(isArray, n, throws)
    \/ \E throws \in BOOLEAN : processBatchEmails(throws)
    \/ \E jobId \in {JobId, OtherJobId} : \E throws \in BOOLEAN : getBatchJob(jobId, throws)

(***************************************************************************)
(* The rate limiter under load                                              *)
(***************************************************************************)

\* No verification in progress.
IdleJob ==
    [pc |-> "idle", path |-> "none", email |-> <<>>, isString |-> TRUE,
     dmarc |-> [found |-> FALSE], mx |-> "none", logs |-> <<>>,
     smtp |-> [valid |-> FALSE],
     primaryMx |-> StrUndefined, startTime |-> 0,
     total0 |-> 0, lookups |-> 0, connects |-> 0]

\* The validation times the tracker keeps.
MaxValidationTimes == 100

\* new MetricsTracker(); seen is history, the numbers of the hours in which
\* recordValidation was called.
NoMetrics ==
    [totalValidations |-> 0, successfulValidations |-> 0, failedValidations |-> 0,
     validationTimes |-> <<>>, hourlyMetrics |-> <<>>, dailyMetrics |-> <<>>,
     seen |-> {}]

\* The buckets a series keeps.
MAX_HOURLY_DATAPOINTS == 24
MAX_DAILY_DATAPOINTS == 30

\* new Date(now).setMinutes(0, 0, 0) and new Date(now).setHours(0, 0, 0, 0),
\* in a time zone without offset: an hour is these many milliseconds and a
\* day these many hours.  A bucket's timestamp is kept as the number of its
\* hour, or of its day, and not in milliseconds.
HourMs == 3600000
DayHours == 24

\* A sort that leaves the buckets as they are.
sortBuckets_asPushed(buckets, desc) == buckets

\* Array.prototype.sort on buckets, by (a, b) => a.timestamp - b.timestamp, or
\* by (a, b) => b.timestamp - a.timestamp when desc: the sort is stable.
RECURSIVE sortBuckets(_, _)
sortBuckets(buckets, desc) ==
    IF buckets = <<>> THEN <<>>
    ELSE LET rest == sortBuckets(SubSeq(buckets, 1, Len(buckets) - 1), desc)
             b == buckets[Len(buckets)]
             before(e) == IF desc THEN e.timestamp >= b.timestamp
                                  ELSE e.timestamp <= b.timestamp
             k == Cardinality({i \in 1..Len(rest) : before(rest[i])})
         IN  SubSeq(rest, 1, k) \o <<b>> \o SubSeq(rest, k + 1, Len(rest))

\* updateTimeSeriesMetrics on one series: the bucket of the current hour or
\* day is found, or pushed, the series then cut to its max greatest
\* timestamps; the bucket counts one more validation (the one in the series,
\* when it is still there).  successRate and averageTime, copies of the
\* tracker's ratios at that time, are left out.
updateSeries(series, current, max) ==
    LET found == \E i \in 1..Len(series) : series[i].timestamp = current
        pushed == IF found THEN series
                  ELSE Append(series, [timestamp |-> current, validations |-> 0])
        kept == IF ~found /\ Len(pushed) > max
                THEN SubSeq(sortBuckets(pushed, TRUE), 1, max)
                ELSE pushed
        first == CHOOSE i \in 1..Len(kept) :
                     /\ kept[i].timestamp = current
                     /\ \A k \in 1..(i - 1) : kept[k].timestamp /= current
    IN  IF \E i \in 1..Len(kept) : kept[i].timestamp = current
        THEN [kept EXCEPT ![first].validations = @ + 1]
        ELSE kept

\* MetricsTracker.updateTimeSeriesMetrics() in the hour of number h.
updateTimeSeriesMetrics(m, h) ==
    [m EXCEPT !.hourlyMetrics = updateSeries(@, h, MAX_HOURLY_DATAPOINTS),
              !.dailyMetrics = updateSeries(@, h \div DayHours, MAX_DAILY_DATAPOINTS)]

\* MetricsTracker.getMetrics(): the snapshot, each series by rising timestamp.
getMetrics(m) ==
    [m EXCEPT !.hourlyMetrics = sortBuckets(@, FALSE),
              !.dailyMetrics = sortBuckets(@, FALSE)]

\* MetricsTracker.recordValidation(startTime, isValid) in the hour of number
\* h, validationTime milliseconds after startTime.
recordValidationAt(m, validationTime, isValid, h) ==
    LET times == Append(m.validationTimes, validationTime)
    IN  updateTimeSeriesMetrics(
            [m EXCEPT !.totalValidations = @ + 1,
                      !.successfulValidations = @ + (IF isValid THEN 1 ELSE 0),
                      !.failedValidations = @ + (IF isValid THEN 0 ELSE 1),
                      !.validationTimes = IF Len(times) > MaxValidationTimes
                                          THEN Tail(times) ELSE times,
                      !.seen = @ \cup {h}],
            h)

\* MetricsTracker.recordValidation(startTime, isValid) at time t.
recordValidation(m, startTime, isValid, t) ==
    recordValidationAt(m, t - startTime, isValid, t \div HourMs)

\* No result returned yet.
NoResult == [path |-> "none"]

\* new WorkerPool(...): no worker, no queued task.
IdlePool ==
    [workers |-> <<>>, queue |-> <<>>, activeWorkers |-> 0, thread |-> <<>>,
     spawnFails |-> {}, rejected |-> {}]

\* No bulk request received yet.
NoBulk ==
    [pc |-> "idle", emails |-> <<>>, response |-> [status |-> 0], overtaken |-> FALSE]

\* The pool and the bulk endpoint at start.
PoolAtStart ==
    /\ pool = IdlePool
    /\ promises = <<>>
    /\ bulk = NoBulk
    /\ nTerm = 0

\* Bounds of the rate-limiter runs.
MaxChecks == 102
MaxAfterWindow == 2

\* The time that passes between two calls: none (the same millisecond), one
\* millisecond, or a whole window.
Steps == {0, 1, RATE_LIMIT_WINDOW}

\* One call of checkRateLimit by the client, d milliseconds after the
\* previous one.
CheckRateLimit(d) ==
    /\ rlChecks < MaxChecks
    /\ d = RATE_LIMIT_WINDOW => rlElapsed = -1
    /\ rlElapsed >= 0 => rlElapsed < MaxAfterWindow /\ d /= RATE_LIMIT_WINDOW
    /\ LET t == now + d
           r == checkRateLimit(rateLimiter, ClientIp, t)
       IN  /\ now' = t
           /\ rateLimiter' = r.map
           /\ rlLast' = IF r.allowed THEN "allowed" ELSE "denied"
           /\ rlAdmits' = (IF d = RATE_LIMIT_WINDOW THEN 0 ELSE rlAdmits)
                            + (IF r.allowed THEN 1 ELSE 0)
           /\ rlChecks' = rlChecks + 1
           /\ rlSince' = rlSince + (IF r.allowed THEN 1 ELSE 0)
           /\ UNCHANGED <<config, cfgLast, hour, httpLimiter, httpLast, batch>>
           /\ rlElapsed' = IF d = RATE_LIMIT_WINDOW THEN 0
                           ELSE IF rlElapsed >= 0 THEN rlElapsed + 1 ELSE -1
           /\ UNCHANGED <<pipeVars, poolVars>>

InitRate ==
    /\ now = 0
    /\ rateLimiter = EmptyMap
    /\ rlLast = "none"
    /\ rlAdmits = 0
    /\ rlChecks = 0
    /\ rlElapsed = -1
    /\ config = DefaultConfig
    /\ cfgLast = NoPost
    /\ rlSince = 0
    /\ hour = 0
    /\ httpLimiter = EmptyMap
    /\ httpLast = [status |-> 0]
    /\ batch = NoBatch
    /\ job = IdleJob
    /\ last = NoResult
    /\ nReq = 0
    /\ conn = NoConn
    /\ metrics = NoMetrics
    /\ PoolAtStart

\* The calls of recordValidation that are tried: at most MaxRecords, hourly
\* for the first BusyHours hours and daily afterwards, the kept hourly buckets
\* counting at most MaxSame calls beyond the first of their hour, at most
\* MaxValid of them for a valid address.
MaxRecords == 58
BusyHours == 26
MaxSame == 1
MaxValid == 1

\* The hours from a call of recordValidation to the next.
MetricSteps ==
    LET hourly == metrics.hourlyMetrics
        counted[i \in 0..Len(hourly)] ==
            IF i = 0 THEN 0 ELSE counted[i - 1] + hourly[i].validations
        same == metrics.totalValidations > 0
                /\ counted[Len(hourly)] - Len(hourly) < MaxSame
    IN  (IF same THEN {0} ELSE {})
        \cup (IF metrics.totalValidations = 0 THEN {0}
              ELSE IF hour < BusyHours THEN {1} ELSE {DayHours})

\* metricsTracker.recordValidation(startTime, isValid), d hours after the
\* previous call, for a validation that took no time.
metricsRecord(d, isValid) ==
    /\ metrics.totalValidations < MaxRecords
    /\ isValid => metrics.successfulValidations < MaxValid
    /\ hour' = hour + d
    /\ metrics' = recordValidationAt(metrics, 0, isValid, hour + d)
    /\ UNCHANGED <<now, rateLimiter, rlLast, rlAdmits, rlChecks, rlElapsed, config,
                   cfgLast, rlSince, httpLimiter, httpLast, batch, job, last, nReq, conn,
                   poolVars>>

NextMetrics == \E d \in MetricSteps : \E isValid \in BOOLEAN : metricsRecord(d, isValid)

\* Another client, whose address begins with the first one's: 127.0.0.10.
Neighbour == ClientIp \o <<"0">>

\* One POST /api/validate-email of client ip, for an address that reaches
\* EmailVerifier.verify, d milliseconds after the previous request: the
\* middleware, and when it calls next(), verify's checkRateLimit.  The
\* requests come a millisecond apart, or once after a whole window; the
\* neighbour makes its requests before the client makes its first.
httpRequest(ip, d) ==
    /\ rlChecks < MaxChecks
    /\ d = RATE_LIMIT_WINDOW => rlElapsed = -1
    /\ rlElapsed >= 0 => rlElapsed < MaxAfterWindow /\ d /= RATE_LIMIT_WINDOW
    /\ ip = Neighbour
          => \A k \in DOMAIN httpLimiter : ~StartsWith(k, ClientIp \o <<"_">>)
    /\ LET t == now + d
           mw == rateLimitMiddleware(httpLimiter, ip, t)
           r == checkRateLimit(rateLimiter, ip, t)
       IN  /\ now' = t
           /\ httpLimiter' = mw.map
           /\ rateLimiter' = IF mw.allowed THEN r.map ELSE rateLimiter
           /\ httpLast' = [ip |-> ip,
                           status |-> IF mw.allowed THEN 200 ELSE 429,
                           verify |-> IF ~mw.allowed THEN "none"
                                      ELSE IF r.allowed THEN "allowed" ELSE "denied"]
           /\ rlChecks' = rlChecks + 1
           /\ rlElapsed' = IF d = RATE_LIMIT_WINDOW THEN 0
                           ELSE IF rlElapsed >= 0 THEN rlElapsed + 1 ELSE -1
           /\ UNCHANGED <<rlLast, rlAdmits, config, cfgLast, rlSince, hour, batch,
                          pipeVars, poolVars>>

NextHttp ==
    \E ip \in {ClientIp, Neighbour} : \E d \in {1, RATE_LIMIT_WINDOW} : httpRequest(ip, d)

SpecHttp == InitRate /\ [][NextHttp]_vars

SpecBatch == InitRate /\ [][NextBatch]_vars

NextRate == \E d \in Steps : CheckRateLimit(d)

SpecRate == InitRate /\ [][NextRate]_vars

SpecMetrics == InitRate /\ [][NextMetrics]_vars

(***************************************************************************)
(* The configuration endpoint beside the rate limiter                       *)
(***************************************************************************)

\* The bodies posted: each field left out, in range, out of range, or (for
\* requestsPerHour) a string that is not a number.
Bodies4 ==
    [requestsPerHour : {Undefined, Num(1), Num(1001), Str("abc")},
     maxBulkEmails : {Undefined, Num(501)},
     windowMs : {Undefined, Num(60000), Num(59999)},
     blockDuration : {Undefined, Num(300000)}]

\* Bound: the checkRateLimit calls made beside configuration updates.
MaxConfigChecks == 3

\* POST /api/rate-limit-config with body newConfig.
postRateLimitConfig(newConfig) ==
    LET validationError == validateConfig(newConfig)
    IN  /\ IF validationError /= JsNull
           THEN /\ cfgLast' = [status |-> 400, message |-> validationError,
                               body |-> newConfig, before |-> config]
                /\ UNCHANGED <<config, rlSince>>
           ELSE /\ config' = updateConfig(config, newConfig)
                /\ cfgLast' = [status |-> 200,
                               message |-> "Rate limit configuration updated successfully",
                               body |-> newConfig, before |-> config]
                /\ rlSince' = 0
        /\ UNCHANGED <<now, rateLimiter, rlLast, rlAdmits, rlChecks, rlElapsed, hour,
                       httpLimiter, httpLast, batch, pipeVars, poolVars>>

NextConfig ==
    \/ \E body \in Bodies4 : postRateLimitConfig(body)
    \/ rlChecks < MaxConfigChecks /\ CheckRateLimit(1)

SpecConfig == InitRate /\ [][NextConfig]_vars

(***************************************************************************)
(* The verification pipeline, one verification at a time                    *)
(***************************************************************************)

\* The addresses submitted.
Addresses == {
    <<"n","o","t","a","n","e","m","a","i","l">>,
    <<"t","e","s","t","@","i","n","v","a","l","i","d">>,
    <<"u","@","t","e","m","p","-","m","a","i","l",".","o","r","g">>,
    <<"u","@","T","e","m","p","-","M","a","i","l",".","O","R","G">>,
    <<"u","@","m","i","c","r","o","s","o","f","t",".","c","o","m">>,
    <<"u","@","c","s",".","m","i","t",".","e","d","u">>,
    <<"b","o","b",".","s","m","i","t","h","@","a","c","m","e",".","c","o">>,
    <<"a","@","b","@","c",".","d","e">>,
    <<"@","a","c","m","e",".","c","o">>,
    <<"a"," ","b","@","a","c","m","e",".","c","o">>,
    <<"a","@","b",".","c","\n","D","A","T","A">> }

\* Elements of a bulk request's array that are not strings, each with the
\* string String(x) that RegExp.prototype.test sees: null, and the array
\* ["bob.smith@acme.co"].
NonStrings == {
    <<"n","u","l","l">>,
    <<"b","o","b",".","s","m","i","t","h","@","a","c","m","e",".","c","o">> }

\* The message of the TypeError of calling split on a value that has none.
SplitTypeError == "email.split is not a function"

\* What resolveTxt('_dmarc.' + domain) answers: it throws, or it returns TXT
\* records, each one here the sequence of its tags after split(';') and trim.
Tag(name, value) == [name |-> name, value |-> value]
TxtAnswers ==
    {[throws |-> TRUE, records |-> <<>>],
     [throws |-> FALSE, records |-> <<>>],
     [throws |-> FALSE, records |-> << <<Tag("v", "spf1"), Tag("-all", "")>> >>],
     [throws |-> FALSE, records |-> << <<Tag("v", "spf1"), Tag("-all", "")>>,
                                       <<Tag("v", "DMARC1"), Tag("p", "reject")>> >>]}

\* EmailVerifier.getDmarcRecord: null ([found |-> FALSE]) when the lookup
\* throws or no record starts with v=DMARC1, else the first such record's
\* policy, 'none' when it has no p= tag.
DmarcRecordOf(answer) ==
    LET isDmarc(r) == Len(r) > 0 /\ r[1] = Tag("v", "DMARC1")
        hits == {i \in 1..Len(answer.records) : isDmarc(answer.records[i])}
        record == answer.records[CHOOSE i \in hits : \A k \in hits : i <= k]
        ptags == {i \in 1..Len(record) : record[i].name = "p"}
        p == record[CHOOSE i \in ptags : \A k \in ptags : i <= k].value
    IN  IF answer.throws \/ hits = {} THEN [found |-> FALSE]
        ELSE [found |-> TRUE,
              policy |-> IF ptags = {} THEN "none" ELSE OrElse(p, "none")]

\* The values getDmarcRecord returns.
DmarcAnswers == {DmarcRecordOf(a) : a \in TxtAnswers}

Mx1 == <<"m","x","1",".","a","c","m","e",".","c","o">>
Mx2 == <<"m","x","2",".","a","c","m","e",".","c","o">>

\* The answers of resolveMx: an error, no record, one record, two records out
\* of order, and the null MX record of a domain that takes no mail ("MX 0 ."),
\* whose exchange is the empty string (socket.connect(25, '') then connects
\* to localhost).
MxAnswers == {
    [throws |-> "queryMx ENOTFOUND"],
    [records |-> <<>>],
    [records |-> <<[priority |-> 10, exchange |-> Mx1]>>],
    [records |-> <<[priority |-> 20, exchange |-> Mx2], [priority |-> 10, exchange |-> Mx1]>>],
    [records |-> <<[priority |-> 0, exchange |-> <<>>]>>] }

\* The chunks the peer sends.
Replies == {
    <<"2","2","0"," ","r","e","a","d","y">>,
    <<"2","5","0"," ","O","K">>,
    <<"5","5","0"," ","n","o"," ","s","u","c","h"," ","u","s","e","r">>,
    <<"4","5","1"," ","t","r","y"," ","l","a","t","e","r">>,
    <<"4","5","0"," ","b","o","x"," ","d","o","e","s"," ","n","o","t"," ","e","x","i","s","t">>,
    <<"5","5","1"," ","n","o","t"," ","l","o","c","a","l">> }

\* The messages of socket errors.
SocketErrors == {"connect ECONNREFUSED"}

\* The messages of the errors that reject a pool task.
TaskErrors == {"Worker stopped with exit code 1"}

\* Bound: the verifications begun in one run.
MaxRequests == 1

\* The rate-limit map of a client that has used up its window: MAX_ATTEMPTS
\* admissions, one per millisecond, at 1 .. MAX_ATTEMPTS.
SaturatedMap ==
    LET keys == {RateKey(ClientIp, t) : t \in 1..MAX_ATTEMPTS}
    IN  [k \in keys |-> CHOOSE t \in 1..MAX_ATTEMPTS : RateKey(ClientIp, t) = k]

\* The record returned, with the run j that produced it: the chunks read, the
\* DNS lookups and connections made, the metrics samples recorded (m is the
\* tracker as the call leaves it).
Result(j, via, replies, m, rec) ==
    [path |-> j.path, email |-> j.email, isString |-> j.isString, via |-> via,
     replies |-> replies, lookups |-> j.lookups, connects |-> j.connects,
     dmarc |-> j.dmarc, mx |-> j.mx, smtp |-> j.smtp,
     recorded |-> m.totalValidations - j.total0, rec |-> rec]

\* A call begins at time t: what it captures.
Begin(path, email, isString, t) ==
    [IdleJob EXCEPT !.path = path, !.email = email, !.isString = isString,
                    !.startTime = t, !.total0 = metrics.totalValidations]

\* The closure of a verifySmtp call whose socket is destroyed and whose timer
\* is not armed can run no more: it is dropped when the next call begins.
collect(c) == IF c.socket /= "open" /\ c.timer /= "armed" THEN NoConn ELSE c

\* The end, at time t, of a verification that went through
\* EmailVerifier.verify with result vr: validateEmail's mapping and its
\* metrics sample, or validateEmailForWorker's mapping.
Return(j, via, vr, replies, t) ==
    LET parts == Split(j.email, "@")
        account == parts[1]
        domain == Destructure(parts, 2)
        rec == IF j.path = "single" THEN resultRecord(vr, account, domain)
               ELSE IF ~j.isString THEN workerCatchRecord(SplitTypeError)
               ELSE workerRecord(vr, account, domain)
        m == IF j.path = "single" THEN recordValidation(metrics, j.startTime, vr.valid, t)
             ELSE metrics
    IN  /\ metrics' = m
        /\ last' = [verified |-> vr] @@ Result(j, via, replies, m, rec)
        /\ job' = IdleJob

\* validateEmail(email, clientIp), up to its first suspension, d milliseconds
\* after the previous request.  POST /api/validate-email passes it strings.
validateEmail(email, d) ==
    /\ job.pc = "idle"
    /\ nReq < MaxRequests
    /\ nReq' = nReq + 1
    /\ now' = now + d
    /\ conn' = collect(conn)
    /\ UNCHANGED <<rateVars, poolVars>>
    /\ LET parts == Split(email, "@")
           account == parts[1]
           domain == Destructure(parts, 2)
           j == Begin("single", email, TRUE, now')
           r == checkRateLimit(rateLimiter, ClientIp, now')
       IN  IF ~TruthyStr(domain) \/ ~TruthyStr(account)
           THEN /\ last' = Result(j, "format", <<>>, metrics,
                                  formatErrorRecord(account, domain))
                /\ UNCHANGED <<job, rateLimiter, metrics>>
           ELSE IF isDisposableEmail(domain)
           THEN /\ last' = Result(j, "disposable", <<>>, metrics,
                                  disposableRecord(account, domain))
                /\ UNCHANGED <<job, rateLimiter, metrics>>
           ELSE /\ rateLimiter' = r.map
                /\ IF ~r.allowed THEN Return(j, "rate", verifyRateLimited, <<>>, now')
                   ELSE IF ~emailRegexTest(email)
                   THEN Return(j, "regex", verifyBadFormat, <<>>, now')
                   ELSE /\ job' = [j EXCEPT !.pc = "dmarc"]
                        /\ UNCHANGED <<last, metrics>>

\* validateEmail(email, clientIp) on a value that is no string, as the worker
\* body email-validation.worker.js passes its workerData.email on: email.split
\* throws inside the try block, and the catch block records a failure.
validateEmailThrows(email) ==
    /\ job.pc = "idle"
    /\ nReq < MaxRequests
    /\ nReq' = nReq + 1
    /\ conn' = collect(conn)
    /\ LET j == Begin("single", email, FALSE, now)
           m == recordValidation(metrics, j.startTime, FALSE, now)
       IN  /\ metrics' = m
           /\ last' = Result(j, "throw", <<>>, m, errorRecord(SplitTypeError))
    /\ UNCHANGED <<poolVars, now, rateLimiter, rateVars, job>>

\* validateEmailForWorker(email, clientIp) in a pool worker, up to its first
\* suspension.  The worker is a fresh thread: the rateLimiter map of its
\* email-verifier module is new, and is lost when the thread exits.
validateEmailForWorker(email, isString) ==
    /\ job.pc = "idle"
    /\ nReq < MaxRequests
    /\ nReq' = nReq + 1
    /\ conn' = collect(conn)
    /\ UNCHANGED <<poolVars, now, rateLimiter, rateVars>>
    /\ LET j == Begin("worker", email, isString, now)
           r == checkRateLimit(EmptyMap, ClientIp, now)
       IN  IF ~r.allowed THEN Return(j, "rate", verifyRateLimited, <<>>, now)
           ELSE IF ~emailRegexTest(email)
           THEN Return(j, "regex", verifyBadFormat, <<>>, now)
           ELSE IF ~isString
           THEN /\ last' = Result(j, "throw", <<>>, metrics,
                                  workerCatchRecord(SplitTypeError))
                /\ UNCHANGED <<job, metrics>>
           ELSE /\ job' = [j EXCEPT !.pc = "dmarc"]
                /\ UNCHANGED <<last, metrics>>

\* await this.getDmarcRecord(domain) returns: one TXT lookup was made.
getDmarcRecord(answer) ==
    /\ job.pc = "dmarc"
    /\ job' = [job EXCEPT !.pc = "mx", !.dmarc = DmarcRecordOf(answer),
                           !.lookups = @ + 1]
    /\ UNCHANGED <<poolVars, now, rateLimiter, rateVars, last, nReq, conn, metrics>>

\* The end of SmtpVerifier.verify with smtpResult and logs: this.logs, and
\* what follows it.
Synthesise(j, via, smtpResult, replies) ==
    \E domain \in {Destructure(Split(j.email, "@"), 2)} :
        Return([j EXCEPT !.smtp = [logs |-> j.logs] @@ smtpResult], via,
               verifySynthesis([logs |-> j.logs] @@ smtpResult, j.dmarc, domain),
               replies, now)

\* await resolveMx(domain) returns or throws inside lookupMxRecords: one MX
\* lookup was made; with a primary MX, verifySmtp is called.
resolveMx(answer) ==
    /\ job.pc = "mx"
    /\ UNCHANGED <<poolVars, now, rateLimiter, rateVars, nReq>>
    /\ LET l == lookupMxRecords(answer)
           j == [job EXCEPT !.lookups = @ + 1,
                            !.mx = IF "throws" \in DOMAIN answer THEN "throws"
                                   ELSE IF Len(answer.records) = 0 THEN "empty"
                                   ELSE "records",
                            !.logs = lookupLogs(answer)]
       IN  IF l.threw
           THEN /\ Synthesise(j, "dns", smtpCatch(l.code, l.message), <<>>)
                /\ UNCHANGED conn
           ELSE /\ job' = [j EXCEPT !.pc = "smtp", !.connects = @ + 1,
                                    !.primaryMx = l.mxRecords[1].exchange]
                /\ conn' = verifySmtp(job.email)
                /\ UNCHANGED <<last, metrics>>

\* A handler of the connection has run and left it as c: if it settled the
\* promise the verification is awaiting, the verification goes on.
Settle(c) ==
    /\ conn' = c
    /\ IF job.pc = "smtp" /\ conn.outcome = Pending /\ c.outcome /= Pending
       THEN Synthesise(job, "smtp", smtpVerify(c.outcome, job.primaryMx), c.replies)
       ELSE UNCHANGED <<job, last, metrics>>

\* A 'data' event of the socket: a live socket emits them.
socketData(response) ==
    /\ conn.socket = "open"
    /\ UNCHANGED <<poolVars, now, rateLimiter, rateVars, nReq>>
    /\ Settle(handleData(conn, response, now))

\* An 'error' event of the socket: a live socket emits one.
socketError(message) ==
    /\ conn.socket = "open"
    /\ UNCHANGED <<poolVars, now, rateLimiter, rateVars, nReq>>
    /\ Settle(handleError(conn, message))

\* The deadline timer fires: an armed timer does.
socketTimeout ==
    /\ conn.timer = "armed"
    /\ UNCHANGED <<poolVars, now, rateLimiter, rateVars, nReq>>
    /\ Settle(handleTimeout(conn))

\* The promise of a pool task is rejected: the .catch of POST
\* /api/validate-emails builds the record of that address.
taskRejected(email, isString, message) ==
    /\ job.pc = "idle"
    /\ nReq < MaxRequests
    /\ nReq' = nReq + 1
    /\ last' = Result(Begin("fallback", email, isString, now), "reject", <<>>, metrics,
                      fallbackRecord(message))
    /\ UNCHANGED <<poolVars, now, rateLimiter, rateVars, job, conn, metrics>>

Init ==
    /\ \/ now = 0 /\ rateLimiter = EmptyMap
       \/ now = MAX_ATTEMPTS /\ rateLimiter = SaturatedMap
    /\ rlLast = "none"
    /\ rlAdmits = 0
    /\ rlChecks = 0
    /\ rlElapsed = -1
    /\ config = DefaultConfig
    /\ cfgLast = NoPost
    /\ rlSince = 0
    /\ hour = 0
    /\ httpLimiter = EmptyMap
    /\ httpLast = [status |-> 0]
    /\ batch = NoBatch
    /\ job = IdleJob
    /\ last = NoResult
    /\ nReq = 0
    /\ conn = NoConn
    /\ metrics = NoMetrics
    /\ PoolAtStart

Next ==
    \/ \E e \in Addresses : \E d \in {0, 1} : validateEmail(e, d)
    \/ \E e \in NonStrings : validateEmailThrows(e)
    \/ \E e \in Addresses : validateEmailForWorker(e, TRUE)
    \/ \E e \in NonStrings : validateEmailForWorker(e, FALSE)
    \/ \E a \in TxtAnswers : getDmarcRecord(a)
    \/ \E a \in MxAnswers : resolveMx(a)
    \/ \E r \in Replies : socketData(r)
    \/ \E m \in SocketErrors : socketError(m)
    \/ socketTimeout
    \/ \E e \in Addresses : \E m \in TaskErrors : taskRejected(e, TRUE, m)
    \/ \E e \in NonStrings : \E m \in TaskErrors : taskRejected(e, FALSE, m)

Spec == Init /\ [][Next]_vars

\* setTimeout(..., TIMEOUT) in verifySmtp: the event loop runs the callback of
\* a timer that stays armed; only cleanup clears it.
SpecLive == Spec /\ WF_vars(socketTimeout)

\* Chunks that hold only a continuation line of a multi-line reply: the
\* first part of "250-mx1 Hello\r\n250 OK\r\n" when the peer's reply arrives
\* in two 'data' events.
ContinuationChunks == { <<"2","5","0","-","m","x","1"," ","H","e","l","l","o">> }

\* The peer closes the connection: the socket emits 'end' and 'close', for
\* which verifySmtp registers no listener, and emits nothing after them.
socketClose ==
    /\ conn.socket = "open"
    /\ conn' = [conn EXCEPT !.socket = "closed"]
    /\ UNCHANGED <<poolVars, now, rateLimiter, rateVars, nReq, job, last, metrics>>

\* The verification with a peer that also sends multi-line replies and
\* closes the connection.
NextLines ==
    \/ Next
    \/ \E r \in ContinuationChunks : socketData(r)
    \/ socketClose

SpecLines == Init /\ [][NextLines]_vars

\* The service when a verification begins: as in Init, or with a client one
\* admission short of MAX_ATTEMPTS, admitted once per millisecond at
\* 2 .. MAX_ATTEMPTS.
InitTwice ==
    /\ \/ now = 0 /\ rateLimiter = EmptyMap
       \/ now = MAX_ATTEMPTS /\ rateLimiter = SaturatedMap
       \/ /\ now = MAX_ATTEMPTS
          /\ rateLimiter = [k \in {x \in DOMAIN SaturatedMap : SaturatedMap[x] > 1}
                               |-> SaturatedMap[k]]
    /\ rlLast = "none"
    /\ rlAdmits = 0
    /\ rlChecks = 0
    /\ rlElapsed = -1
    /\ config = DefaultConfig
    /\ cfgLast = NoPost
    /\ rlSince = 0
    /\ hour = 0
    /\ httpLimiter = EmptyMap
    /\ httpLast = [status |-> 0]
    /\ batch = NoBatch
    /\ job = IdleJob
    /\ last = NoResult
    /\ nReq = 0
    /\ conn = NoConn
    /\ metrics = NoMetrics
    /\ PoolAtStart

SpecTwice == InitTwice /\ [][Next]_vars

(***************************************************************************)
(* WorkerPool and POST /api/validate-emails                                 *)
(***************************************************************************)

\* The size of the pool the routes create: Math.max(2, Math.min(4, cpus - 1))
\* on a host of up to three CPUs.
maxWorkers == 2

\* The limit of the bulk endpoint on emails.length.
MaxEmails == 100

\* Bounds: the length of an accepted batch, and the terminate() calls.
MaxBatch == 3
MaxTerminates == 1

\* Array.prototype.indexOf, 1-based; 0 stands for -1.
indexOf(list, x) ==
    IF \E i \in 1..Len(list) : list[i] = x
    THEN CHOOSE i \in 1..Len(list) : list[i] = x /\ \A k \in 1..(i - 1) : list[k] /= x
    ELSE 0

\* list.splice(index, 1), 1-based.
splice(list, index) == SubSeq(list, 1, index - 1) \o SubSeq(list, index + 1, Len(list))

\* WorkerPool.processQueue: starts the worker of the task at the head of the
\* queue unless the queue is empty or activeWorkers has reached maxWorkers.
\* A task is named by its index in emails, and so is its worker.
\* `new Worker` throws for the tasks of p.spawnFails (the thread cannot be
\* created): processQueue is left after queue.shift() and activeWorkers++,
\* before any handler is set and before workers.push.
processQueue(p) ==
    IF Len(p.queue) = 0 \/ p.activeWorkers >= maxWorkers
    THEN p
    ELSE LET task == Head(p.queue)
         IN  IF task \in p.spawnFails
             THEN [p EXCEPT !.queue = Tail(@),
                            !.activeWorkers = @ + 1]
             ELSE [p EXCEPT !.queue = Tail(@),
                            !.activeWorkers = @ + 1,
                            !.thread[task] = "running",
                            !.workers = Append(@, task)]

\* processQueue, called on p, throws.
processQueueThrows(p) ==
    /\ Len(p.queue) > 0
    /\ p.activeWorkers < maxWorkers
    /\ Head(p.queue) \in p.spawnFails

\* WorkerPool.execute, the pool's side: queue.push and processQueue.  An
\* exception thrown inside the executor of new Promise rejects the promise
\* execute returns, that of the task pushed.
execute(p, task) ==
    LET pushed == [p EXCEPT !.queue = Append(@, task)]
        left == processQueue(pushed)
    IN  IF processQueueThrows(pushed)
        THEN [left EXCEPT !.rejected = @ \cup {task}]
        ELSE left

\* emails.map(email => workerPool.execute(...)): tasks i .. n in order.
RECURSIVE executeAll(_, _, _)
executeAll(p, i, n) == IF i > n THEN p ELSE executeAll(execute(p, i), i + 1, n)

\* WorkerPool.cleanupWorker.
cleanupWorker(p, worker) ==
    LET index == indexOf(p.workers, worker)
        spliced == IF index > 0 THEN [p EXCEPT !.workers = splice(@, index)] ELSE p
    IN  processQueue([spliced EXCEPT !.activeWorkers = @ - 1])

\* WorkerPool.terminate: worker.terminate() asks each thread to stop; the
\* thread exits later, with code 1.
terminate(p) ==
    [p EXCEPT !.thread = [t \in DOMAIN @ |->
                            IF \E i \in 1..Len(p.workers) : p.workers[i] = t
                            THEN "terminating" ELSE @[t]],
              !.workers = <<>>,
              !.queue = <<>>,
              !.activeWorkers = 0]

\* A promise not settled yet; `failure` records how its task failed, if it did.
PendingPromise == [state |-> "pending", failure |-> "none"]

\* The request, with the note that promise i settles while the promise of an
\* earlier element is pending.
noteOrder(b, ps, i) ==
    [b EXCEPT !.overtaken = @ \/ (/\ ps[i].state = "pending"
                                  /\ \E k \in 1..(i - 1) : ps[k].state = "pending")]

\* A pool that settles the oldest pending promise with whatever task ends.
settle_oldestPending(ps, i, state, value, failure) ==
    IF \E k \in 1..Len(ps) : ps[k].state = "pending"
    THEN LET k == CHOOSE k \in 1..Len(ps) :
                    /\ ps[k].state = "pending"
                    /\ \A h \in 1..(k - 1) : ps[h].state /= "pending"
         IN  [ps EXCEPT ![k] = [state |-> state, value |-> value, failure |-> failure]]
    ELSE ps

\* new Error(message).
newError(message) == [message |-> message]

\* resolve(value) or reject(reason) of promise i: a settled promise stays as
\* it is.
settle(ps, i, state, value, failure) ==
    IF ps[i].state = "pending"
    THEN [ps EXCEPT ![i] = [state |-> state, value |-> value, failure |-> failure]]
    ELSE ps

\* The elements of a bulk request's array: an address, and null.
BulkItems == {
    [email |-> <<"b","o","b",".","s","m","i","t","h","@","a","c","m","e",".","c","o">>,
     isString |-> TRUE],
    [email |-> <<"n","u","l","l">>, isString |-> FALSE] }

\* The message of the error `new Worker` throws.
SpawnError == "Worker initialization failure: EAGAIN"

\* The tasks whose `new Worker` throws: none, the first, the first two.  With
\* maxWorkers = 2 these are started inside execute, never inside a handler.
SpawnFailures == {{}, {1}, {1, 2}}

\* The bodies posted: no array, an array of up to MaxBatch elements, and an
\* array of MaxEmails + 1 elements.
Bodies ==
    {[isArray |-> FALSE]}
    \cup {[isArray |-> TRUE, emails |-> es] :
            es \in UNION {[1..n -> BulkItems] : n \in 0..MaxBatch}}
    \cup {[isArray |-> TRUE,
           emails |-> [i \in 1..(MaxEmails + 1) |-> CHOOSE it \in BulkItems : it.isString]]}

\* What the resolver and the peer answer a worker.
WorkerMxAnswers ==
    {[throws |-> "queryMx ENOTFOUND"], [records |-> <<[priority |-> 10, exchange |-> Mx1]>>]}
WorkerSmtpEnds == {onCatchAllCheck(<<"5","5","0"," ","n","o">>).promise}

\* validateEmailForWorker(email, clientIp) from call to return, given the
\* answers of the resolver and of the peer.  The worker's rateLimiter is new,
\* so its one check is admitted.
workerRun(item, dmarcRecord, mxAnswer, promise) ==
    LET parts == Split(item.email, "@")
        account == parts[1]
        domain == Destructure(parts, 2)
        l == lookupMxRecords(mxAnswer)
        smtpResult == [logs |-> lookupLogs(mxAnswer)]
                      @@ (IF l.threw THEN smtpCatch(l.code, l.message)
                          ELSE smtpVerify(promise, l.mxRecords[1].exchange))
        vr == IF ~checkRateLimit(EmptyMap, ClientIp, now).allowed THEN verifyRateLimited
              ELSE IF ~emailRegexTest(item.email) THEN verifyBadFormat
              ELSE verifySynthesis(smtpResult, dmarcRecord, domain)
    IN  IF ~item.isString
        THEN workerCatchRecord(SplitTypeError)
        ELSE workerRecord(vr, account, domain)

\* The records a worker can post for an element.
WorkerOutcomes(item) ==
    {workerRun(item, [found |-> FALSE], a, p) : a \in WorkerMxAnswers, p \in WorkerSmtpEnds}

\* The messages of the failures a worker posts, and of its uncaught errors.
PostedErrors == {"Unknown error occurred"}
UncaughtErrors == {"Cannot find module"}

\* ...result, email: emails[index]
withEmail(result, email) == [email |-> email] @@ result

\* The handler of POST /api/validate-emails up to `await Promise.all`.
postValidateEmails(body, fails) ==
    /\ bulk.pc = "idle"
    /\ UNCHANGED <<now, rateLimiter, rateVars, pipeVars, nTerm>>
    /\ IF ~body.isArray
       THEN /\ bulk' = [bulk EXCEPT !.pc = "done",
                          !.response = [status |-> 400,
                                        message |-> "Emails must be provided as an array"]]
            /\ UNCHANGED <<pool, promises>>
       ELSE IF Len(body.emails) > MaxEmails
       THEN /\ bulk' = [bulk EXCEPT !.pc = "done",
                          !.response = [status |-> 400,
                                        message |-> "Maximum 100 emails allowed per request"]]
            /\ UNCHANGED <<pool, promises>>
       ELSE LET n == Len(body.emails)
                started == executeAll([pool EXCEPT !.thread = [i \in 1..n |-> "none"],
                                                   !.spawnFails = fails,
                                                   !.rejected = {}], 1, n)
            IN  /\ bulk' = [bulk EXCEPT !.pc = "waiting", !.emails = body.emails]
                /\ promises' = [i \in 1..n |->
                                   IF i \in started.rejected
                                   THEN [state |-> "rejected", value |-> newError(SpawnError),
                                         failure |-> "spawn"]
                                   ELSE PendingPromise]
                /\ pool' = started

\* worker.on('message') for a { success: true, result } message.
workerMessage(w, result) ==
    /\ w \in DOMAIN pool.thread
    /\ pool.thread[w] = "running"
    /\ promises' = settle(promises, w, "resolved", result,
                          IF bulk.emails[w].isString THEN "none" ELSE "threw")
    /\ pool' = cleanupWorker([pool EXCEPT !.thread[w] = "posted"], w)
    /\ bulk' = noteOrder(bulk, promises, w)
    /\ UNCHANGED <<now, rateLimiter, rateVars, pipeVars, nTerm>>

\* worker.on('message') for a { success: false, error } message.
workerFailure(w, error) ==
    /\ w \in DOMAIN pool.thread
    /\ pool.thread[w] = "running"
    /\ promises' = settle(promises, w, "rejected", newError(error), "posted")
    /\ pool' = cleanupWorker([pool EXCEPT !.thread[w] = "posted"], w)
    /\ bulk' = noteOrder(bulk, promises, w)
    /\ UNCHANGED <<now, rateLimiter, rateVars, pipeVars, nTerm>>

\* worker.on('error'): an uncaught exception in the worker thread.
workerError(w, error) ==
    /\ w \in DOMAIN pool.thread
    /\ pool.thread[w] = "running"
    /\ promises' = settle(promises, w, "rejected", newError(error), "error")
    /\ pool' = cleanupWorker([pool EXCEPT !.thread[w] = "errored"], w)
    /\ bulk' = noteOrder(bulk, promises, w)
    /\ UNCHANGED <<now, rateLimiter, rateVars, pipeVars, nTerm>>

\* worker.on('exit'): code 0 once the worker has posted and run out of work,
\* code 1 after an uncaught exception or terminate().
workerExit(w) ==
    /\ w \in DOMAIN pool.thread
    /\ pool.thread[w] \in {"posted", "errored", "terminating"}
    /\ LET code == IF pool.thread[w] = "posted" THEN 0 ELSE 1
       IN  promises' = IF code /= 0
                       THEN settle(promises, w, "rejected",
                                   newError("Worker stopped with exit code 1"), "exit")
                       ELSE promises
    /\ pool' = cleanupWorker([pool EXCEPT !.thread[w] = "exited"], w)
    /\ bulk' = noteOrder(bulk, promises, w)
    /\ UNCHANGED <<now, rateLimiter, rateVars, pipeVars, nTerm>>

\* workerPool.terminate().
poolTerminate ==
    /\ nTerm < MaxTerminates
    /\ nTerm' = nTerm + 1
    /\ pool' = terminate(pool)
    /\ UNCHANGED <<now, rateLimiter, rateVars, pipeVars, promises, bulk>>

\* Promise.all settles: every promise of the batch, with its .catch, is
\* fulfilled, and the handler answers.
respond ==
    /\ bulk.pc = "waiting"
    /\ \A i \in 1..Len(promises) : promises[i].state /= "pending"
    /\ LET results == [i \in 1..Len(promises) |->
                         IF promises[i].state = "resolved" THEN promises[i].value
                         ELSE fallbackRecord(promises[i].value.message)]
       IN  bulk' = [bulk EXCEPT !.pc = "done",
                      !.response = [status |-> 200,
                                    body |-> [i \in 1..Len(results) |->
                                                withEmail(results[i], bulk.emails[i].email)]]]
    /\ UNCHANGED <<now, rateLimiter, rateVars, pipeVars, pool, promises, nTerm>>

InitPool ==
    /\ now = 0
    /\ rateLimiter = EmptyMap
    /\ rlLast = "none"
    /\ rlAdmits = 0
    /\ rlChecks = 0
    /\ rlElapsed = -1
    /\ config = DefaultConfig
    /\ cfgLast = NoPost
    /\ rlSince = 0
    /\ hour = 0
    /\ httpLimiter = EmptyMap
    /\ httpLast = [status |-> 0]
    /\ batch = NoBatch
    /\ job = IdleJob
    /\ last = NoResult
    /\ nReq = 0
    /\ conn = NoConn
    /\ metrics = NoMetrics
    /\ PoolAtStart

NextPool ==
    \/ \E body \in Bodies : \E fails \in SpawnFailures : postValidateEmails(body, fails)
    \/ \E w \in 1..Len(bulk.emails) : \E r \in WorkerOutcomes(bulk.emails[w]) :
          workerMessage(w, r)
    \/ \E w \in 1..Len(bulk.emails) : \E e \in PostedErrors : workerFailure(w, e)
    \/ \E w \in 1..Len(bulk.emails) : \E e \in UncaughtErrors : workerError(w, e)
    \/ \E w \in 1..Len(bulk.emails) : workerExit(w)
    \/ poolTerminate
    \/ respond

SpecPool == InitPool /\ [][NextPool]_vars

\* A started worker does not stay silent: it errors or exits unless it has
\* posted, and exits once it has.  'message' is enabled exactly where 'error'
\* is, so a behaviour in which the worker posts meets the condition through
\* the exit that follows.
workerEvent(w) ==
    \/ \E e \in PostedErrors : workerFailure(w, e)
    \/ \E e \in UncaughtErrors : workerError(w, e)
    \/ workerExit(w)

\* The pool when every started worker eventually posts a message, errors or
\* exits.
SpecPoolLive == SpecPool /\ \A w \in 1..MaxBatch : WF_vars(w \in 1..Len(bulk.emails) /\ workerEvent(w))

(***************************************************************************)
(* Properties                                                               *)
(***************************************************************************)

\* The worker threads started and not yet exited.
LiveThreads ==
    {t \in DOMAIN pool.thread : pool.thread[t] \in {"running", "posted", "errored", "terminating"}}

\* C1 (as claimed): the number of worker threads started and not yet exited
\* never exceeds maxWorkers.
C1_LiveWithinMax == Cardinality(LiveThreads) <= maxWorkers

\* A task of the batch failed: its verification threw in the worker, or the
\* worker posted a failure, emitted 'error', or exited with a non-zero code.
Failed(i) == promises[i].failure /= "none"

\* C10 (as claimed): once the bulk endpoint has answered a batch, the answer
\* has one record per address, and the record of every task that failed has
\* status "error" and subStatus "system_error".
C10_FailedTaskIsError ==
    (bulk.pc = "done" /\ bulk.response.status = 200)
    => /\ Len(bulk.response.body) = Len(bulk.emails)
       /\ \A i \in 1..Len(bulk.emails) :
            Failed(i) => /\ bulk.response.body[i].status = "error"
                         /\ bulk.response.body[i].subStatus = "system_error"

\* A result record has been returned.
Returned == last.path /= "none"

\* The domain of the address of the last result: what follows the first @.
LastDomain == Destructure(Split(last.email, "@"), 2)

\* The peer accepted the recipient and then the probe mailbox: the fourth and
\* the fifth chunk of the conversation both start with 250.
PeerIsCatchAll ==
    /\ Returned
    /\ last.via = "smtp"
    /\ Len(last.replies) = 5
    /\ StartsWith(last.replies[4], <<"2","5","0">>)
    /\ StartsWith(last.replies[5], <<"2","5","0">>)

\* The domain is corporate, as the claim words it: in the allow-list
\* (lowercased), or ending in .edu or .gov.
ClaimedCorporate(domain) ==
    \/ toLowerCase(domain) \in CORPORATE_DOMAINS
    \/ Len(domain) >= 4 /\ SubSeq(domain, Len(domain) - 3, Len(domain)) \in
           {<<".","e","d","u">>, <<".","g","o","v">>}

\* C2 (as claimed): once checkRateLimit has returned true MAX_ATTEMPTS times
\* within one window, every further call inside that window returns false
\* (so no window ever holds more than MAX_ATTEMPTS admissions), and a call made
\* once the window has elapsed returns true again.
C2_RateLimitMonotone ==
    /\ rlAdmits <= MAX_ATTEMPTS
    /\ rlElapsed = 0 => rlLast = "allowed"

\* C3: every result record returned, on every path, has isValid true exactly
\* when its status is "valid" or "catch-all".
C3_IsValidIffStatus ==
    Returned => (last.rec.isValid <=> last.rec.status \in {"valid", "catch-all"})

\* C3 witness: validateEmail returned a catch-all record that is valid.
C3_Witness ==
    /\ Returned
    /\ last.path = "single"
    /\ last.rec.status = "catch-all"
    /\ last.rec.isValid

\* C4: every result record returned has mxFound "Yes" exactly when its
\* mxRecord is not null.
C4_MxFoundIffMxRecord ==
    Returned => (last.rec.mxFound = "Yes" <=> last.rec.mxRecord /= StrNull)

\* C4 witness: an SMTP conversation ended and the record carries the MX host.
C4_Witness ==
    /\ Returned
    /\ last.via = "smtp"
    /\ last.rec.mxFound = "Yes"
    /\ last.rec.mxRecord = Mx1

\* C5 (as claimed): an address that does not match the syntax shape gets
\* status "invalid", subStatus "format_error" and isValid false (checked for
\* validateEmail and callers the rate limiter admits).
C5_FormatError ==
    (Returned /\ last.path = "single" /\ last.isString /\ last.via /= "rate"
        /\ ~emailRegexTest(last.email))
    => /\ last.rec.status = "invalid"
       /\ last.rec.subStatus = "format_error"
       /\ ~last.rec.isValid

\* C6 (as claimed): an address whose domain is in the disposable set gets
\* status "invalid", subStatus "disposable" and isValid false on the single
\* path and on the pool worker's path.
C6_Disposable ==
    (Returned /\ last.path \in {"single", "worker"} /\ last.isString
        /\ TruthyStr(LastDomain) /\ toLowerCase(LastDomain) \in disposableDomains)
    => /\ last.rec.status = "invalid"
       /\ last.rec.subStatus = "disposable"
       /\ ~last.rec.isValid

\* C7 (as claimed): when the peer accepts the recipient and the probe mailbox
\* and the domain is corporate, validateEmail returns status "catch-all",
\* isValid true and mxFound "Yes".
C7_CorporateCatchAll ==
    (PeerIsCatchAll /\ last.path = "single" /\ ClaimedCorporate(LastDomain))
    => /\ last.rec.status = "catch-all"
       /\ last.rec.isValid
       /\ last.rec.mxFound = "Yes"

\* C8 (as claimed): when the peer accepts the recipient and the probe mailbox
\* and the domain is not corporate, validateEmail returns status "invalid",
\* subStatus "catch_all_detected" and isValid false.
C8_CatchAllDetected ==
    (PeerIsCatchAll /\ last.path = "single" /\ ~ClaimedCorporate(LastDomain))
    => /\ last.rec.status = "invalid"
       /\ last.rec.subStatus = "catch_all_detected"
       /\ ~last.rec.isValid

\* C9: every result record with status "error" has subStatus "system_error"
\* and isValid false.
C9_ErrorShape ==
    (Returned /\ last.rec.status = "error")
    => last.rec.subStatus = "system_error" /\ ~last.rec.isValid

\* C9 witness: the bulk endpoint built the fallback record of a rejected task.
C9_Witness ==
    /\ Returned
    /\ last.path = "fallback"
    /\ last.rec.status = "error"

\* The rate limiter refused the caller of the last validateEmail call.
RateLimited == Returned /\ last.path = "single" /\ last.via = "rate"

C12_RateLimitedIsError ==
    (RateLimited /\ emailRegexTest(last.email) /\ ~isDisposableEmail(LastDomain))
    => /\ last.rec.status = "error"
       /\ last.rec.subStatus = "system_error"
       /\ ~last.rec.isValid

\* The bulk endpoint has answered an accepted batch.
Answered == bulk.pc = "done" /\ bulk.response.status = 200

\* The records the pool and the route can produce for an element: what its
\* worker posts, and the fallback record of each rejection.
Produced(item) ==
    WorkerOutcomes(item)
    \cup {fallbackRecord(m) :
            m \in PostedErrors \cup UncaughtErrors
                    \cup {"Worker stopped with exit code 1", SpawnError}}

\* C13: the answer to an accepted batch has one record per element of emails,
\* in the order of emails: record i carries emails[i] as its email and is a
\* record produced for emails[i], in whatever order the tasks ended.
C13_BulkOrder ==
    Answered
    => /\ Len(bulk.response.body) = Len(bulk.emails)
       /\ \A i \in 1..Len(bulk.emails) :
            \E r \in Produced(bulk.emails[i]) :
                bulk.response.body[i] = withEmail(r, bulk.emails[i].email)

\* C13 witness: a batch of different elements was answered after a task
\* ended before the task of an earlier element.
C13_Witness ==
    /\ Answered
    /\ bulk.overtaken
    /\ \E i, k \in 1..Len(bulk.emails) : bulk.emails[i] /= bulk.emails[k]

\* C14: in every run of verifySmtp, over every interleaving of 'data' events,
\* the 'error' event and the deadline timer, cleanup runs at most once, and
\* once the promise is settled it has run exactly once: the socket is
\* destroyed and the timer is not armed.
C14_CleanupOnce ==
    /\ conn.cleanups <= 1
    /\ conn.outcome /= Pending
         => conn.cleanups = 1 /\ conn.socket = "destroyed" /\ conn.timer /= "armed"

\* C14 witness: a conversation was ended by a reply, its socket destroyed.
C14_Witness ==
    /\ conn.outcome /= Pending
    /\ Len(conn.replies) >= 1
    /\ conn.cleanups = 1
    /\ conn.timer = "cleared"

\* C15: in every run of verifySmtp, resolve or reject is called at most once.
C15_SettleOnce == conn.settles <= 1

\* C15 witness: the promise of a conversation was resolved.
C15_Witness == conn.settles = 1 /\ conn.outcome.kind = "resolve"

\* The lines written before QUIT.
Commands == SelectSeq(conn.writes, LAMBDA line : line /= quitLine)

\* Chunk k is a successful reply: 220 for the greeting, 250 afterwards.
Successful(k) ==
    StartsWith(conn.replies[k], IF k = 1 THEN <<"2","2","0">> ELSE <<"2","5","0">>)

RcptLines ==
    SelectSeq(conn.writes, LAMBDA line : StartsWith(line, <<"R","C","P","T"," ","T","O",":">>))

\* C19: every line written to the socket is a single line that is a HELO, a
\* MAIL FROM, a RCPT TO or QUIT, and at most two RCPT TO lines are written.
C19_OnlyEnvelopeCommands ==
    /\ \A i \in 1..Len(conn.writes) :
         LET line == conn.writes[i]
         IN  /\ \/ StartsWith(line, <<"H","E","L","O"," ">>)
                \/ StartsWith(line, <<"M","A","I","L"," ","F","R","O","M",":">>)
                \/ StartsWith(line, <<"R","C","P","T"," ","T","O",":">>)
                \/ line = quitLine
             /\ \A k \in 1..Len(line) : line[k] \notin {"\n", "\r"}
    /\ Len(RcptLines) <= 2

\* C19 witness: a conversation wrote both RCPT TO lines and QUIT.
C19_Witness ==
    /\ Len(RcptLines) = 2
    /\ Len(conn.writes) >= 1
    /\ conn.writes[Len(conn.writes)] = quitLine

\* C17: a verification that waits on an SMTP conversation always goes on,
\* whatever the peer sends or fails to send; when the deadline fires the
\* promise is rejected with timeout_error and the socket is destroyed.
C17_DeadlineEnds ==
    /\ [](conn.timer = "fired"
            => /\ conn.outcome = Rejected("timeout_error", "Connection timeout")
               /\ conn.socket = "destroyed")
    /\ (job.pc = "smtp") ~> (job.pc /= "smtp")

\* C17 witness: the deadline fired on a peer that had not answered the last
\* command written, and the verification returned a timeout.
C17_Witness ==
    /\ conn.timer = "fired"
    /\ Len(conn.replies) = Len(Commands)
    /\ conn.outcome.code = "timeout_error"
    /\ job.pc = "idle"
    /\ last.via = "smtp"

\* The reply read at the RCPT_TO stage of a conversation that got there.
RcptReply == conn.replies[4]

\* The reply codes listed as meaning that the mailbox does not exist.
NoMailboxCodes ==
    { <<"5","5","0">>, <<"5","5","1">>, <<"5","5","3">>, <<"5","0","1">>,
      <<"5","0","4">>, <<"5","1","1">>, <<"5","5","4">> }

\* C18: at the RCPT_TO stage a reply with code 550, 551, 553, 501, 504, 511
\* or 554, or one whose body contains "does not exist", ends the conversation
\* with mailbox_not_found, and any other reply that is not 250 ends it with
\* rcpt_to_error.
C18_RcptToOutcome ==
    Len(conn.replies) >= 4 /\ ~StartsWith(RcptReply, <<"2","5","0">>)
    => IF \/ \E code \in NoMailboxCodes : StartsWith(RcptReply, code)
          \/ Includes(RcptReply, <<"d","o","e","s"," ","n","o","t"," ","e","x","i","s","t">>)
       THEN conn.outcome = Resolved(FALSE, "mailbox_not_found", "Mailbox does not exist", FALSE)
       ELSE conn.outcome = Rejected("rcpt_to_error", "RCPT TO command failed")

\* C20: every call of validateEmail that has returned has recorded one
\* sample in the metrics tracker, whichever way it returned.
C20_EveryExitRecorded ==
    Returned /\ last.path = "single" => last.recorded = 1

\* A stored field is a number within lo..hi.
Within(v, lo, hi) == v.t = "number" /\ lo <= v.n /\ v.n <= hi

\* C21: after an update of the configuration was stored, the checks made
\* since then admit no more calls than the stored requestsPerHour (the calls
\* of a run all fall in one stored window).
C21_ChecksUseStoredLimit ==
    cfgLast.status = 200 /\ config.requestsPerHour.t = "number"
    => rlSince <= config.requestsPerHour.n

\* C22: a body with a field outside its range is answered 400 and leaves the
\* store as it was, an accepted body changes only the fields it supplies,
\* and every stored field lies within its range.
C22_StoredConfigInRange ==
    /\ cfgLast.status = 400 => config = cfgLast.before
    /\ cfgLast.status = 200 =>
         \A f \in ConfigFields :
            config[f] = IF cfgLast.body[f] /= Undefined THEN cfgLast.body[f]
                        ELSE cfgLast.before[f]
    /\ Within(config.requestsPerHour, 1, 1000)
    /\ Within(config.maxBulkEmails, 1, 500)
    /\ Within(config.windowMs, 60000, 86400000)
    /\ Within(config.blockDuration, 300000, 86400000)

\* C23: no promise of a submitted task is left without anything that will
\* settle it: a pending promise belongs to a task that waits in the queue or
\* whose worker thread runs or is being stopped (its exit rejects it).
C23_TerminateRejectsPending ==
    \A i \in 1..Len(promises) :
        promises[i].state = "pending"
        => \/ \E k \in 1..Len(pool.queue) : pool.queue[k] = i
           \/ pool.thread[i] \in {"running", "terminating"}

\* C24: when `new Worker` throws for a dequeued task, the promise of that
\* task is rejected, activeWorkers does not count a worker that does not
\* exist, and a task waits in the queue only while some worker is there to
\* free a slot for it.
C24_SpawnFailureDoesNotStall ==
    /\ \A i \in 1..Len(promises) :
          i \in pool.spawnFails => promises[i].state = "rejected"
    /\ pool.activeWorkers <= Len(pool.workers)
    /\ Len(pool.queue) > 0 => Len(pool.workers) > 0

\* The tasks in flight: their worker was started and their promise is not
\* settled.
InFlight ==
    {i \in 1..Len(promises) :
        promises[i].state = "pending" /\ pool.thread[i] \in {"running", "terminating"}}

\* C25: workers are started in the order of submission (the worker of a
\* task is started only once that of every earlier task was, a task whose
\* worker could not be created aside), and a task waits in the queue only
\* while maxWorkers tasks are in flight.
C25_FifoStart ==
    /\ \A a, b \in 1..Len(promises) :
          a < b /\ pool.thread[b] /= "none"
          => pool.thread[a] /= "none" \/ a \in pool.rejected
    /\ Len(pool.queue) > 0 => Cardinality(InFlight) >= maxWorkers

\* C26: an MX lookup that returns no record gives subStatus "no_mx_record",
\* and an MX lookup that raises gives subStatus "dns_error".
C26_DnsFailureModes ==
    Returned /\ last.via = "dns"
    => /\ last.mx = "empty" => last.rec.subStatus = "no_mx_record"
       /\ last.mx = "throws" => last.rec.subStatus = "dns_error"

\* C29: the outcome of every call of EmailVerifier.verify carries a list of
\* logs with at least one entry, and the first entry is that of the first
\* stage of the verifier, the DNS lookup.
C29_LogsNeverEmpty ==
    Returned /\ "verified" \in DOMAIN last
    => /\ "logs" \in DOMAIN last.verified
       /\ Len(last.verified.logs) >= 1
       /\ last.verified.logs[1].stage = "dns_lookup"

\* The record the last call would have returned had the DMARC lookup given d.
WithDmarc(d) ==
    LET parts == Split(last.email, "@")
        vr == verifySynthesis(last.smtp, d, LastDomain)
    IN  IF last.path = "single" THEN resultRecord(vr, parts[1], LastDomain)
        ELSE workerRecord(vr, parts[1], LastDomain)

\* C30: a DMARC lookup that fails or finds no record never changes the
\* verdict: the result then has dmarcPolicy null, and the same status,
\* subStatus, isValid and mxRecord as with any other DMARC answer, for the
\* same address and the same MX and SMTP behaviour.
C30_DmarcNeverChangesVerdict ==
    Returned /\ last.via \in {"dns", "smtp"} /\ last.isString
    => /\ ~last.dmarc.found => last.rec.dmarcPolicy = JsNull
       /\ \A d \in DmarcAnswers :
              /\ WithDmarc(d).status = last.rec.status
              /\ WithDmarc(d).subStatus = last.rec.subStatus
              /\ WithDmarc(d).isValid = last.rec.isValid
              /\ WithDmarc(d).mxRecord = last.rec.mxRecord
              /\ WithDmarc(d).dmarcPolicy = dmarcPolicyOf(d)

\* C30 happens: an address was accepted over SMTP although the DMARC lookup
\* gave no record, and a record with a policy was among the possible answers.
C30_Witness ==
    /\ Returned /\ last.via = "smtp" /\ ~last.dmarc.found
    /\ last.rec.isValid /\ last.rec.dmarcPolicy = JsNull
    /\ \E d \in DmarcAnswers : d.found /\ WithDmarc(d).dmarcPolicy = "reject"

\* The timestamps of a series of buckets.
Stamps(series) == {series[i].timestamp : i \in 1..Len(series)}

\* A series holds at most max buckets, no two of one timestamp, by rising
\* timestamp.
WellKept(series, max) ==
    /\ Len(series) <= max
    /\ \A i, k \in 1..Len(series) : i < k => series[i].timestamp < series[k].timestamp

\* The n greatest numbers of a set.
Greatest(S, n) == {x \in S : Cardinality({y \in S : y > x}) < n}

\* C28: after any sequence of recordValidation calls at non-decreasing times,
\* the snapshot holds at most 24 hourly and at most 30 daily buckets, no two
\* buckets of a series have one timestamp, and the buckets are the most
\* recent ones: those of the 24 latest hours and of the 30 latest days in
\* which recordValidation was called.
C28_RecentBuckets ==
    /\ WellKept(getMetrics(metrics).hourlyMetrics, 24)
    /\ WellKept(getMetrics(metrics).dailyMetrics, 30)
    /\ Stamps(metrics.hourlyMetrics) = Greatest(metrics.seen, 24)
    /\ Stamps(metrics.dailyMetrics)
           = Greatest({h \div DayHours : h \in metrics.seen}, 30)

\* C28 happens: both series are full and have dropped their first bucket, and
\* a kept hourly bucket counts two validations.
C28_Witness ==
    /\ Len(metrics.hourlyMetrics) = 24 /\ 0 \notin Stamps(metrics.hourlyMetrics)
    /\ Len(metrics.dailyMetrics) = 30 /\ 0 \notin Stamps(metrics.dailyMetrics)
    /\ \E i \in 1..24 : metrics.hourlyMetrics[i].validations = 2

\* The last call was a validation of a string, and it has returned.
Validated == Returned /\ job.pc = "idle" /\ last.isString
                /\ last.path \in {"single", "worker"}

\* The entries the limiter would count for the client d milliseconds from
\* now: those of the main thread, none in a fresh worker.
Counted(d) ==
    LET windowStart == now + d - RATE_LIMIT_WINDOW
    IN  IF last.path = "single"
        THEN Attempts(PurgeOld(rateLimiter, windowStart), ClientIp, windowStart)
        ELSE 0

\* The record of validating the address of the last call again, d
\* milliseconds from now, the DNS and SMTP peers answering as they did.
Again(d) ==
    LET parts == Split(last.email, "@")
        account == parts[1]
        domain == LastDomain
        r == checkRateLimit(IF last.path = "single" THEN rateLimiter ELSE EmptyMap,
                            ClientIp, now + d)
        vr == IF ~r.allowed THEN verifyRateLimited
              ELSE IF ~emailRegexTest(last.email) THEN verifyBadFormat
              ELSE verifySynthesis(last.smtp, last.dmarc, domain)
    IN  IF last.path = "worker" THEN workerRecord(vr, account, domain)
        ELSE IF ~TruthyStr(domain) \/ ~TruthyStr(account)
        THEN formatErrorRecord(account, domain)
        ELSE IF isDisposableEmail(domain) THEN disposableRecord(account, domain)
        ELSE resultRecord(vr, account, domain)

\* Two records agree on the verdict.
SameVerdict(a, b) ==
    /\ a.status = b.status
    /\ a.subStatus = b.subStatus
    /\ a.isValid = b.isValid
    /\ a.mxRecord = b.mxRecord
    /\ a.dmarcPolicy = b.dmarcPolicy

FinalChunks ==
    {i \in 1..Len(conn.replies) :
        ~(Len(conn.replies[i]) >= 4 /\ conn.replies[i][4] = "-")}

\* C31: a multi-line reply, however it is split across 'data' events, moves
\* the conversation on by one stage: the stages passed and the commands sent
\* for them never outnumber the final lines read, so a chunk that holds only
\* continuation lines triggers no command.
C31_OneStagePerReply ==
    /\ conn.stage <= Cardinality(FinalChunks)
    /\ Cardinality({i \in 1..Len(conn.writes) : conn.writes[i] /= quitLine})
          <= Cardinality(FinalChunks)

\* C32: when the peer closes the connection in the middle of the
\* conversation, without a socket error, the verification ends with the
\* error unknown_error, not with a timeout or another kind of error.
C32_HangUpIsUnknownError ==
    conn.socket = "closed" /\ conn.outcome /= Pending
    => conn.outcome.kind = "reject" /\ conn.outcome.code = "unknown_error"

\* C34: every admitted check adds one new entry for its id and overwrites
\* none: the map holds as many entries counted for the client as checks were
\* admitted in the window, also when admissions carry one timestamp.
C34_OneEntryPerAdmission ==
    Attempts(rateLimiter, ClientIp, now - RATE_LIMIT_WINDOW) = rlAdmits

\* C33: every rate-limit check made at time t purges the entries older than
\* t - W: after a check by the middleware, and after one by checkRateLimit,
\* the map it uses holds no entry with a timestamp below t - W (so that the
\* map holds entries of requests of the last window only).
C33_NoEntryOlderThanWindow ==
    /\ httpLast.status /= 0
       => \A k \in DOMAIN httpLimiter : httpLimiter[k] >= now - RATE_LIMIT_WINDOW
    /\ httpLast.status = 200
       => \A k \in DOMAIN rateLimiter : rateLimiter[k] >= now - RATE_LIMIT_WINDOW

\* The entries of map m in the window that ends now which requests of ip
\* itself have made: their key is ip, an underscore and a time.
Own(m, ip) ==
    {k \in DOMAIN m : StartsWith(k, ip \o <<"_">>) /\ m[k] > now - RATE_LIMIT_WINDOW}

\* C37: the decision for a client depends on its own requests only: the
\* middleware and checkRateLimit refuse the client at 127.0.0.1 only when its
\* own entries in the window, the refused request aside, reach the limit,
\* whatever the client at 127.0.0.10 has requested.
C37_OwnHistoryOnly ==
    httpLast.status /= 0 /\ httpLast.ip = ClientIp
    => /\ httpLast.status = 429
          => Cardinality(Own(httpLimiter, ClientIp)) >= MAX_REQUESTS
       /\ httpLast.verify = "denied"
          => Cardinality(Own(rateLimiter, ClientIp)) >= MAX_ATTEMPTS

\* The address verifications of the client that were let through to DNS in
\* the window that ends now: those the process-wide map counts, and the last
\* one when a pool worker made it, which that map does not hold.
LetThrough ==
    Attempts(rateLimiter, ClientIp, now - RATE_LIMIT_WINDOW)
      + (IF last.path = "worker" THEN 1 ELSE 0)

\* C35: for one client, single requests and the addresses of bulk requests
\* verified in pool workers together, the verifications that reach DNS or
\* SMTP within a window never exceed MAX_ATTEMPTS.
C35_WindowCoversWorkers ==
    Returned /\ last.path \in {"single", "worker"} /\ last.lookups > 0
    => LetThrough <= MAX_ATTEMPTS

\* C36: in every state of the pool, activeWorkers is the number of workers
\* started whose slot has not been released, the length of the workers list,
\* and it is never negative, whatever events the workers emit and whether or
\* not terminate was called.
C36_ActiveWorkersIsWorkers ==
    /\ pool.activeWorkers = Len(pool.workers)
    /\ pool.activeWorkers >= 0

\* Task i of the batch has been handed to execute; its promise is settled.
Submitted(i) == i \in 1..Len(promises)
Settled(i) == Submitted(i) /\ promises[i].state /= "pending"
\* C38: if terminate is never called, every task submitted to
\* WorkerPool.execute has its promise settled eventually: no promise of the
\* batch stays pending forever.
C38_EveryTaskSettles ==
    [](nTerm = 0) => \A i \in 1..MaxBatch : [](Submitted(i) => <>Settled(i))

\* The exchanges with the lowest priority of the non-empty answers.
LowestExchanges ==
    {SortByPriority(a.records)[1].exchange :
        a \in {b \in MxAnswers : "records" \in DOMAIN b /\ Len(b.records) > 0}}

\* C39: whenever the MX lookup returned a non-empty record set, the record
\* returned has mxFound "Yes" and its mxRecord is the exchange with the
\* lowest priority, whatever the SMTP conversation did afterwards.
C39_MxRecordSurvivesSmtp ==
    Returned /\ last.mx = "records" =>
        /\ last.rec.mxFound = "Yes"
        /\ last.rec.mxRecord \in LowestExchanges

\* What holds of the job row and of the last job query in every state:
\* processedEmails is at most totalEmails, a completed job has processed all
\* its emails, and only a query that read a completed job carries rows.
JobKept ==
    /\ batch.row.processedEmails <= batch.row.totalEmails
    /\ batch.row.status = "completed" =>
            batch.row.processedEmails = batch.row.totalEmails
    /\ batch.query.status = 200 /\ batch.query.results.defined =>
            batch.query.job.status = "completed"

\* The moves of the status the chain pending, processing, completed or
\* failed allows, and the move from pending straight to failed.
ChainMoves ==
    { <<"none", "pending">>, <<"pending", "processing">>,
      <<"processing", "completed">>, <<"processing", "failed">> }
FailedAtOnce == <<"pending", "failed">>

\* One step of the job row: its status stays or makes one of the moves, and
\* processedEmails does not decrease.
JobStep(moves) ==
    /\ \/ batch'.row.status = batch.row.status
       \/ <<batch.row.status, batch'.row.status>> \in moves
    /\ batch'.row.processedEmails >= batch.row.processedEmails

\* C40 as stated: the status of a batch job only moves pending to
\* processing to completed or failed, the final states are never left,
\* processedEmails never decreases nor exceeds totalEmails, a completed job
\* has processedEmails = totalEmails, and the job query returns rows only
\* for a completed job.
C40_StatusChain == []JobKept /\ [][JobStep(ChainMoves)]_vars

\* C40, amended: the same, except that the status may also move from
\* pending straight to failed (the update to "processing" itself failed).
C40_StatusChainOrFailedAtOnce ==
    []JobKept /\ [][JobStep(ChainMoves \cup {FailedAtOnce})]_vars

\* C40 witness: a job of three batches is completed with every email
\* processed, and the job query has returned its rows.
C40_Witness ==
    /\ batch.row.status = "completed"
    /\ batch.row.totalEmails > 2 * batchSize
    /\ batch.query.status = 200
    /\ batch.query.results.defined
    /\ batch.query.results.rows = batch.row.totalEmails

=============================================================================
